---- MODULE Spec2Model ----
(***************************************************************************)
(* A model of the alabama-rpg terrain pipeline: the nearest-prototype      *)
(* biome classifier (world/biomes.js), the nearest-biome search of the     *)
(* findbiome debug command (debug/commands/findbiome.js) and the chunk     *)
(* cache of the World (world/world.js, world/chunk.js).                    *)
(*                                                                         *)
(* Numbers.  Axis values are JavaScript floats in [0,1]; the model keeps   *)
(* them in hundredths (0..100).  Classification weights are kept in        *)
(* tenths (1.1 is 11), so a weighted squared distance is an exact integer  *)
(* 10^5 times the JavaScript value.  A colour '#rrggbb' is the triple      *)
(* <<r, g, b>> of its three bytes.  The JavaScript number NaN is the value *)
(* NaN below, which no arithmetic of the model produces.  The hash of      *)
(* utils/prng.js is kept bit for bit, and the noise functions built on it  *)
(* in thousandths.                                                         *)
(***************************************************************************)
EXTENDS Integers, Sequences, FiniteSets, TLC

VARIABLES
    noise,          \* the sampler made by makeNoise: the tiles that sample SpecialAxes
    ACTIVE_BIOMES,  \* biomes.js: the active prototype list
    LAST_HIT,       \* findbiome.js: Map targetId -> {tx, ty}
    search,         \* the last findNearestBiome call: its arguments, result and trace
    viewMode,       \* World.viewMode
    chunks,         \* World.chunks: Map chunkKey -> canvas
    chunkMode,      \* for every cached canvas, the view mode it was generated under
    generations,    \* per region, the canvases generated since the last mode change
    modeLog,        \* the view modes the World has had, the latest ModeLogLen of them
    lastOp,         \* the last World call: its arguments, its outcome, the state before
    loading,        \* where a tryLoadBiomesFromCSV call in flight waits: "idle" if none
    biomeOp,        \* the last classifier event: a finished load attempt or a classification
    sampler,        \* the makeNoise call of main.js: its arguments and the closure it made
    noiseIn,        \* the arguments of the call of a noise function under study
    noiseOp,        \* the last call of a noise function: its arguments and its result
    sampled,        \* per tile, the axes the first sampleAxes call on it returned
    phase,          \* the last call of a function of findbiome.js on its own, with its result
    boot,           \* main.js: where start() is, and the animation frame requested
    kb,             \* the keyboard handler createKeyboard() made
    debugConsole,   \* the DebugConsole of main.js: _open, and the lines logged
    registry        \* the command registry: its Map byName and its last execute call

searchVars == <<LAST_HIT, search>>
worldVars == <<viewMode, chunks, chunkMode, generations, modeLog, lastOp>>
biomeVars == <<loading, biomeOp>>
noiseVars == <<sampler, noiseIn, noiseOp, sampled>>
shellVars == <<boot, kb, debugConsole, registry>>
vars == <<noise, ACTIVE_BIOMES, LAST_HIT, search,
          viewMode, chunks, chunkMode, generations, modeLog, lastOp,
          loading, biomeOp, sampler, noiseIn, noiseOp, sampled, phase,
          boot, kb, debugConsole, registry>>

----------------------------------------------------------------------------
(* Bounds of the model *)

\* the largest --max (Chebyshev radius in tiles) a search is called with
MaxRadius == 2

\* the largest number of tiles whose axes differ from the background axes
MaxSpecial == 2

\* the tiles a search is started from
Starts == {<<0, 0>>, <<1, 0>>}

\* the window of tiles around the start tiles in which the field varies
Tiles == {<<x, y>> : x \in (0 - MaxRadius)..(1 + MaxRadius),
                     y \in (0 - MaxRadius)..MaxRadius}

\* the regions (chunks) the World is asked for
Regions == {<<0, 0>>, <<-1, 0>>}

\* a canvas is kept for the first RasterSide x RasterSide tiles of its chunk
RasterSide == 2

\* the most canvases generated for one region between two mode changes
MaxGenerations == 3

\* the number of view modes modeLog remembers
ModeLogLen == 3

\* the most lines a fetched biomes.csv has
MaxLines == 2

\* the arguments setViewMode is called with: valid modes, a valid mode in
\* upper case, an unknown mode, and '' (which null and undefined become)
ModeInputs == {"biomes", "temp", "sal", "TEMP", "heat", ""}

----------------------------------------------------------------------------
(* config.js *)

CHUNK_SIZE == 64

CLASSIFY_WEIGHTS ==
    [temp |-> 10, moist |-> 10, elev |-> 11, rough |-> 10,
     sal |-> 11, fert |-> 10, fire |-> 10]

----------------------------------------------------------------------------
(* Small helpers standing for Math.max, Math.min, Math.abs *)

Max(a, b) == IF a >= b THEN a ELSE b
Min(a, b) == IF a <= b THEN a ELSE b
Abs(a) == IF a < 0 THEN 0 - a ELSE a

\* JavaScript null
null == [null |-> TRUE]

\* JavaScript NaN, what Number(text) is for a text that is no number
NaN == 0 - 1000000

\* String.prototype.toLowerCase on the texts of the model, of which "TEMP",
\* "ID" and "HELP" have upper-case letters
toLowerCase(text) ==
    IF text = "TEMP" THEN "temp" ELSE IF text = "ID" THEN "id"
    ELSE IF text = "HELP" THEN "help" ELSE text

\* String.prototype.trim on the texts of the model, of which " " has blanks
trim(text) == IF text = " " THEN "" ELSE text

----------------------------------------------------------------------------
(* world/biomes.js *)

DEFAULT_COLORS_BY_ID ==
    <<<<46, 107, 63>>, <<78, 127, 158>>, <<106, 125, 111>>, <<63, 106, 84>>,
      <<202, 162, 71>>, <<79, 127, 100>>, <<158, 212, 111>>, <<205, 187, 118>>,
      <<47, 81, 48>>, <<90, 167, 199>>, <<59, 127, 107>>, <<141, 179, 106>>,
      <<232, 214, 160>>, <<110, 139, 94>>>>

\* DEFAULT_COLORS_BY_ID[id] || '#888888'
ColorOfId(id) ==
    IF id \in DOMAIN DEFAULT_COLORS_BY_ID THEN DEFAULT_COLORS_BY_ID[id]
    ELSE <<136, 136, 136>>

\* the rows of DEFAULT_ALABAMA_BIOMES: axes in hundredths, the anchor text left
\* out, the dash of label 11 written as a hyphen
DefaultRows ==
 <<
    [id |-> 1, label |-> "Appalachian Highlands Forest", temp |-> 45, moist |-> 55, elev |-> 85, rough |-> 75, sal |-> 0, fert |-> 50, fire |-> 20],
    [id |-> 2, label |-> "Sandstone Canyon & Falls", temp |-> 50, moist |-> 70, elev |-> 60, rough |-> 80, sal |-> 0, fert |-> 60, fire |-> 10],
    [id |-> 3, label |-> "Karst Plateau & Caves", temp |-> 50, moist |-> 55, elev |-> 55, rough |-> 55, sal |-> 0, fert |-> 60, fire |-> 0],
    [id |-> 4, label |-> "Ridge-and-Valley Mixed Woods", temp |-> 50, moist |-> 55, elev |-> 65, rough |-> 70, sal |-> 0, fert |-> 50, fire |-> 10],
    [id |-> 5, label |-> "Longleaf Pine Savanna", temp |-> 70, moist |-> 55, elev |-> 35, rough |-> 30, sal |-> 0, fert |-> 45, fire |-> 90],
    [id |-> 6, label |-> "Pine Flatwoods", temp |-> 75, moist |-> 60, elev |-> 25, rough |-> 20, sal |-> 0, fert |-> 40, fire |-> 50],
    [id |-> 7, label |-> "Pitcher-Plant Seepage Bogs", temp |-> 80, moist |-> 95, elev |-> 20, rough |-> 15, sal |-> 0, fert |-> 10, fire |-> 60],
    [id |-> 8, label |-> "Black Belt Prairie", temp |-> 65, moist |-> 50, elev |-> 30, rough |-> 25, sal |-> 0, fert |-> 85, fire |-> 20],
    [id |-> 9, label |-> "Bottomland Hardwood & Swamp", temp |-> 70, moist |-> 90, elev |-> 20, rough |-> 20, sal |-> 0, fert |-> 70, fire |-> 5],
    [id |-> 10, label |-> "Shoal Rivers & Rocky Riffles", temp |-> 60, moist |-> 80, elev |-> 35, rough |-> 50, sal |-> 0, fert |-> 60, fire |-> 5],
    [id |-> 11, label |-> "Mobile-Tensaw Delta", temp |-> 85, moist |-> 100, elev |-> 5, rough |-> 15, sal |-> 10, fert |-> 60, fire |-> 5],
    [id |-> 12, label |-> "Tidal Salt Marsh & Estuary", temp |-> 90, moist |-> 100, elev |-> 5, rough |-> 10, sal |-> 60, fert |-> 50, fire |-> 0],
    [id |-> 13, label |-> "Coastal Dune & Beach", temp |-> 95, moist |-> 60, elev |-> 5, rough |-> 25, sal |-> 100, fert |-> 15, fire |-> 0],
    [id |-> 14, label |-> "Maritime Forest & Scrub", temp |-> 90, moist |-> 70, elev |-> 8, rough |-> 20, sal |-> 40, fert |-> 40, fire |-> 0]
 >>

\* the built-in list: each row with its colour added (the .map at the end)
DEFAULT_ALABAMA_BIOMES ==
    [i \in DOMAIN DefaultRows |->
        [id |-> DefaultRows[i].id, label |-> DefaultRows[i].label,
         temp |-> DefaultRows[i].temp, moist |-> DefaultRows[i].moist,
         elev |-> DefaultRows[i].elev, rough |-> DefaultRows[i].rough,
         sal |-> DefaultRows[i].sal, fert |-> DefaultRows[i].fert,
         fire |-> DefaultRows[i].fire, color |-> ColorOfId(DefaultRows[i].id)]]

\* clamp01(x): x < 0 ? 0 : x > 1 ? 1 : x, on hundredths; both comparisons are
\* false for NaN, which is returned as it is
clamp01(x) == IF x = NaN THEN NaN ELSE IF x < 0 THEN 0 ELSE IF x > 100 THEN 100 ELSE x

\* the axis names
AxisNames == {"temp", "moist", "elev", "rough", "sal", "fert", "fire"}

\* weightedDist2 for vectors without NaN
WeightedSum(a, b, w) ==
      w.temp  * (a.temp  - b.temp)  * (a.temp  - b.temp)
    + w.moist * (a.moist - b.moist) * (a.moist - b.moist)
    + w.elev  * (a.elev  - b.elev)  * (a.elev  - b.elev)
    + w.rough * (a.rough - b.rough) * (a.rough - b.rough)
    + w.sal   * (a.sal   - b.sal)   * (a.sal   - b.sal)
    + w.fert  * (a.fert  - b.fert)  * (a.fert  - b.fert)
    + w.fire  * (a.fire  - b.fire)  * (a.fire  - b.fire)

\* weightedDist2(a, b, w): a sum with a NaN term is NaN
weightedDist2(a, b, w) ==
    IF \E k \in AxisNames : a[k] = NaN \/ b[k] = NaN THEN NaN
    ELSE WeightedSum(a, b, w)

\* ClassifyStep taking the prototype on d <= bestD
RECURSIVE ClassifyLoopLastWins(_, _, _, _, _, _)
ClassifyLoopLastWins(axes, list, weights, i, best, bestD) ==
    IF i > Len(list) THEN [best |-> best, bestD |-> bestD]
    ELSE LET d == weightedDist2(axes, list[i], weights)
         IN  IF d # NaN /\ (best = 0 \/ d <= bestD)
             THEN ClassifyLoopLastWins(axes, list, weights, i + 1, i, d)
             ELSE ClassifyLoopLastWins(axes, list, weights, i + 1, best, bestD)

ClassifyStepLastWins(axes, list, weights, i, best, bestD, d) ==
    IF d # NaN /\ (best = 0 \/ d <= bestD)
    THEN ClassifyLoopLastWins(axes, list, weights, i + 1, i, d)
    ELSE ClassifyLoopLastWins(axes, list, weights, i + 1, best, bestD)

\* the loop of classifyAxes from position i on; best = 0 stands for
\* best === null with bestD === Infinity.  ClassifyStep is the loop body
\* once d = weightedDist2(axes, b, weights) is known: if (d < bestD) ...,
\* a comparison that is false for d = NaN
RECURSIVE ClassifyLoop(_, _, _, _, _, _)
ClassifyStep(axes, list, weights, i, best, bestD, d) ==
    IF d # NaN /\ (best = 0 \/ d < bestD)
    THEN ClassifyLoop(axes, list, weights, i + 1, i, d)
    ELSE ClassifyLoop(axes, list, weights, i + 1, best, bestD)

ClassifyLoop(axes, list, weights, i, best, bestD) ==
    IF i > Len(list) THEN [best |-> best, bestD |-> bestD]
    ELSE ClassifyStep(axes, list, weights, i, best, bestD,
                      weightedDist2(axes, list[i], weights))

\* the return of classifyAxes; reading best.id of a null best throws
ClassifyReturn(list, r) ==
    IF r.best = 0 THEN [error |-> "TypeError"]
    ELSE [id |-> list[r.best].id, label |-> list[r.best].label,
          color |-> list[r.best].color, dist |-> r.bestD]

\* classifyAxes(axes, list, weights)
classifyAxes(axes, list, weights) ==
    ClassifyReturn(list, ClassifyLoop(axes, list, weights, 1, 0, 0))

----------------------------------------------------------------------------
(* world/biomes.js, CSV loading.  A text is the sequence of its lines (what *)
(* text.split(/\r?\n/) gives), a line the sequence of its fields (what      *)
(* line.split(',') gives); so a line of k fields has k - 1 commas.          *)

\* Number(text), in hundredths, for the field texts of the model; a text
\* that is no number gives NaN, the empty text 0
NumberTable ==
    ("" :> 0) @@ ("0" :> 0) @@ ("0.1" :> 10) @@ ("0.15" :> 15) @@ ("0.2" :> 20)
    @@ ("0.45" :> 45) @@ ("0.5" :> 50) @@ ("0.55" :> 55) @@ ("0.6" :> 60)
    @@ ("0.75" :> 75) @@ ("0.8" :> 80) @@ ("0.85" :> 85) @@ ("0.95" :> 95)
    @@ ("1" :> 100) @@ ("1.5" :> 150) @@ ("-0.2" :> 0 - 20) @@ ("7" :> 700)

Number(text) == IF text \in DOMAIN NumberTable THEN NumberTable[text] ELSE NaN

\* the id Number(parts[0]) as the model keeps ids, in units: the id texts of
\* the model are whole numbers or no numbers
IdOf(n) == IF n = NaN THEN NaN ELSE n \div 100

\* l.trim().length > 0 fails: the line is empty or blank
LineIsBlank(line) == Len(line) = 1 /\ trim(line[1]) = ""

\* line.trim().startsWith('#'), for the first fields of the model
StartsWithHash(line) == trim(line[1]) = "# note"

\* lines[0].toLowerCase().startsWith('id,label,real_world_anchor')
IsHeaderLine(line) ==
    /\ Len(line) >= 3
    /\ toLowerCase(line[1]) = "id"
    /\ toLowerCase(line[2]) = "label"
    /\ toLowerCase(line[3]) = "real_world_anchor"

\* the object out.push(...) gets for a line of at least 10 fields (the anchor
\* text left out, as in DefaultRows)
ParseRow(parts) ==
    [id |-> IdOf(Number(parts[1])), label |-> parts[2],
     temp |-> clamp01(Number(parts[4])), moist |-> clamp01(Number(parts[5])),
     elev |-> clamp01(Number(parts[6])), rough |-> clamp01(Number(parts[7])),
     sal |-> clamp01(Number(parts[8])), fert |-> clamp01(Number(parts[9])),
     fire |-> clamp01(Number(parts[10])),
     color |-> ColorOfId(IdOf(Number(parts[1])))]

\* ParseLines that stops at the first line of fewer than 10 fields
RECURSIVE ParseLinesStopAtShort(_, _, _)
ParseLinesStopAtShort(lines, i, out) ==
    IF i > Len(lines) THEN out
    ELSE IF LineIsBlank(lines[i]) \/ StartsWithHash(lines[i])
         THEN ParseLinesStopAtShort(lines, i + 1, out)
    ELSE IF Len(lines[i]) < 10 THEN out
    ELSE ParseLinesStopAtShort(lines, i + 1, Append(out, ParseRow(lines[i])))

\* the loop for (let i = startIdx; i < lines.length; i++) of parseBiomesCSV,
\* from line i on (lines counted from 1)
RECURSIVE ParseLines(_, _, _)
ParseLines(lines, i, out) ==
    IF i > Len(lines) THEN out
    ELSE IF LineIsBlank(lines[i]) \/ StartsWithHash(lines[i])
         THEN ParseLines(lines, i + 1, out)
    ELSE IF Len(lines[i]) < 10 THEN ParseLines(lines, i + 1, out)
    ELSE ParseLines(lines, i + 1, Append(out, ParseRow(lines[i])))

\* the lines parseBiomesCSV keeps: .filter(l => l.trim().length > 0)
NonBlankLines(text) == SelectSeq(text, LAMBDA l : ~LineIsBlank(l))

\* parseBiomesCSV past the filter
ParseKept(lines) ==
    IF Len(lines) = 0 THEN <<>>
    ELSE ParseLines(lines, IF IsHeaderLine(lines[1]) THEN 2 ELSE 1, <<>>)

\* parseBiomesCSV(text)
parseBiomesCSV(text) == ParseKept(NonBlankLines(text))

\* the new ACTIVE_BIOMES that keeps the old prototypes and adds the parsed ones
SwapAppended(parsed) == ACTIVE_BIOMES \o parsed

\* the new ACTIVE_BIOMES without the test of parsed.length
SwapUnchecked(parsed) == parsed

\* the new ACTIVE_BIOMES that is the parsed list while it is still being built
SwapUnfinished(parsed) == IF Len(parsed) > 1 THEN SubSeq(parsed, 1, 1) ELSE ACTIVE_BIOMES

\* ACTIVE_BIOMES after `if (parsed.length) { ACTIVE_BIOMES = parsed; }`
Swap(parsed) == IF Len(parsed) > 0 THEN parsed ELSE ACTIVE_BIOMES

----------------------------------------------------------------------------
(* utils/prng.js.  A 32-bit word is [hi, lo], its two 16-bit halves.  A    *)
(* value the bit operators return is a word with the field signed: ^, <<   *)
(* and Math.imul give an int32 (signed), >>> gives a uint32.  An integer   *)
(* argument is [neg, mag]: its sign and the 16-bit digits of its magnitude, *)
(* lowest first, so that arguments beyond 32 bits can be written.          *)

RECURSIVE Pow2(_)
Pow2(k) == IF k = 0 THEN 1 ELSE 2 * Pow2(k - 1)

\* a word as a hexadecimal literal gives it, halves hi and lo
WordOf(hi, lo) == [hi |-> hi, lo |-> lo]

RECURSIVE MagOf(_)
\* the magnitude of the natural number n: its 16-bit digits, lowest first
MagOf(n) == IF n = 0 THEN <<>> ELSE <<n % 65536>> \o MagOf(n \div 65536)

\* the integer n as an argument
IntegerOf(n) == [neg |-> n < 0, mag |-> MagOf(IF n < 0 THEN 0 - n ELSE n)]

\* the product of two 16-bit numbers, as a word
Mul16(a, b) ==
    LET p1 == a * (b % 256)
        p2 == a * (b \div 256)
        t == (p2 % 256) * 256 + p1
    IN  [hi |-> (p2 \div 256) + (t \div 65536), lo |-> t % 65536]

RECURSIVE AddMag(_, _, _)
\* a + b + carry on magnitudes
AddMag(a, b, carry) ==
    IF a = <<>> /\ b = <<>> THEN (IF carry = 1 THEN <<1>> ELSE <<>>)
    ELSE LET x == IF a = <<>> THEN 0 ELSE Head(a)
             y == IF b = <<>> THEN 0 ELSE Head(b)
             s == x + y + carry
         IN  <<s % 65536>> \o AddMag(IF a = <<>> THEN <<>> ELSE Tail(a),
                                     IF b = <<>> THEN <<>> ELSE Tail(b), s \div 65536)

RECURSIVE MulMag(_, _)
\* a * c for the magnitude a and the word c: the exact product
MulMag(a, c) ==
    IF a = <<>> THEN <<>>
    ELSE AddMag(AddMag(<<Mul16(Head(a), c.lo).lo, Mul16(Head(a), c.lo).hi>>,
                       <<0, Mul16(Head(a), c.hi).lo, Mul16(Head(a), c.hi).hi>>, 0),
                <<0>> \o MulMag(Tail(a), c), 0)

RECURSIVE BitLen16(_)
\* the number of bits of a 16-bit number
BitLen16(x) == IF x = 0 THEN 0 ELSE 1 + BitLen16(x \div 2)

RECURSIVE BitLen(_)
\* the number of bits of a magnitude
BitLen(a) ==
    IF a = <<>> THEN 0
    ELSE IF BitLen(Tail(a)) > 0 THEN 16 + BitLen(Tail(a)) ELSE BitLen16(Head(a))

\* the magnitude modulo 2^32, as a word
Trunc32(a) ==
    [hi |-> IF Len(a) >= 2 THEN a[2] ELSE 0, lo |-> IF Len(a) >= 1 THEN a[1] ELSE 0]

\* a double keeps 53 significant bits.  RoundedLow(w, k) is the lowest word
\* of a magnitude whose lowest word is w after its k lowest bits are rounded
\* away, ties to even, as a multiplication rounds its exact product
RoundedLow(w, k) ==
    IF k <= 0 THEN w
    ELSE IF k >= 32 THEN [hi |-> 0, lo |-> 0]
    ELSE IF k <= 16
    THEN LET rem == w.lo % Pow2(k)
             odd == IF k = 16 THEN w.hi % 2 = 1 ELSE (w.lo \div Pow2(k)) % 2 = 1
             up == rem > Pow2(k - 1) \/ (rem = Pow2(k - 1) /\ odd)
             lo == w.lo - rem + (IF up THEN Pow2(k) ELSE 0)
         IN  [hi |-> (w.hi + lo \div 65536) % 65536, lo |-> lo % 65536]
    ELSE LET remHi == w.hi % Pow2(k - 16)
             odd == (w.hi \div Pow2(k - 16)) % 2 = 1
             up == \/ remHi > Pow2(k - 17)
                   \/ remHi = Pow2(k - 17) /\ (w.lo > 0 \/ odd)
         IN  [hi |-> (w.hi - remHi + (IF up THEN Pow2(k - 16) ELSE 0)) % 65536, lo |-> 0]

\* the product n * c of the integer n and the constant word c as a double,
\* kept as its sign and its magnitude modulo 2^32
Times(n, c) ==
    [neg |-> n.neg,
     low |-> RoundedLow(Trunc32(MulMag(n.mag, c)), BitLen(MulMag(n.mag, c)) - 53)]

\* the word of -m modulo 2^32, for the word of m
Negate32(word) ==
    IF word.lo = 0 THEN [hi |-> (65536 - word.hi) % 65536, lo |-> 0]
    ELSE [hi |-> 65535 - word.hi, lo |-> 65536 - word.lo]

\* ToInt32 of the integer [neg, mag]: its value modulo 2^32
WordOfNumber(n) ==
    IF n.neg THEN Negate32(Trunc32(n.mag)) ELSE Trunc32(n.mag)

\* toUint32(p): p >>> 0, for a product p
toUint32(p) ==
    [hi |-> (IF p.neg THEN Negate32(p.low) ELSE p.low).hi,
     lo |-> (IF p.neg THEN Negate32(p.low) ELSE p.low).lo,
     signed |-> FALSE]

RECURSIVE Xor16(_, _, _)
\* a ^ b on the lowest w bits
Xor16(a, b, w) ==
    IF w = 0 THEN 0 ELSE ((a + b) % 2) + 2 * Xor16(a \div 2, b \div 2, w - 1)

\* a ^ b
Xor(a, b) == [hi |-> Xor16(a.hi, b.hi, 16), lo |-> Xor16(a.lo, b.lo, 16), signed |-> TRUE]

\* a >>> k
ShiftRight(a, k) ==
    IF k >= 16 THEN [hi |-> 0, lo |-> a.hi \div Pow2(k - 16), signed |-> FALSE]
    ELSE [hi |-> a.hi \div Pow2(k),
          lo |-> (a.lo \div Pow2(k)) + (a.hi % Pow2(k)) * Pow2(16 - k),
          signed |-> FALSE]

\* a << k, for k < 16
ShiftLeft(a, k) ==
    [hi |-> (a.hi * Pow2(k) + a.lo \div Pow2(16 - k)) % 65536,
     lo |-> (a.lo * Pow2(k)) % 65536,
     signed |-> TRUE]

\* Math.imul(a, b): the lowest 32 bits of the product, as an int32
imul(a, b) ==
    [hi |-> (Mul16(a.lo, b.lo).hi + Mul16(a.hi, b.lo).lo + Mul16(a.lo, b.hi).lo) % 65536,
     lo |-> Mul16(a.lo, b.lo).lo,
     signed |-> TRUE]

\* h ^= h >>> k
XorShift(h, k) == Xor(h, ShiftRight(h, k))

\* the final avalanche of hash2i and of mixSeed, before `h >>> 0`
Avalanche(h) ==
    XorShift(imul(XorShift(imul(XorShift(h, 16), WordOf(34283, 51819)),     \* 0x85ebca6b
                           13),
                  WordOf(49842, 44597)),                                    \* 0xc2b2ae35
             16)

\* hash2i returning h instead of h >>> 0
hash2iSigned(ix, iy, seed) ==
    Avalanche(imul(Xor(imul(Xor(Xor(WordOf(33052, 40389), WordOfNumber(seed)),
                                toUint32(Times(ix, WordOf(10196, 60205)))),
                            WordOf(256, 403)),
                       toUint32(Times(iy, WordOf(5718, 26545)))),
                   WordOf(256, 403)))

\* hash2i(ix, iy, seed): 2166136261 ^ seed, mixed with ix * 0x27d4eb2d and
\* iy * 0x165667b1 by Math.imul(., 16777619), then the avalanche
hash2i(ix, iy, seed) ==
    ShiftRight(Avalanche(imul(Xor(imul(Xor(Xor(WordOf(33052, 40389), WordOfNumber(seed)),
                                           toUint32(Times(ix, WordOf(10196, 60205)))),
                                       WordOf(256, 403)),
                                  toUint32(Times(iy, WordOf(5718, 26545)))),
                              WordOf(256, 403))),
               0)

\* h / 4294967296 for the value h of a bit operator, in thousandths (rounded
\* down); an int32 with its highest bit set is negative
Ratio32(h) ==
    (h.hi * 1000 + (h.lo * 1000) \div 65536) \div 65536
        - (IF h.signed /\ h.hi >= 32768 THEN 1000 ELSE 0)

\* hash2f(ix, iy, seed) = hash2i(ix, iy, seed) / 4294967296
hash2f(ix, iy, seed) == Ratio32(hash2i(ix, iy, seed))

----------------------------------------------------------------------------
(* world/noise.js (in world.js): the sampler made by makeNoise.  Its       *)
(* numbers are JavaScript floats; the model keeps them in thousandths,     *)
(* rounded down after every multiplication and division.  NaN is the value *)
(* NaN and a field an object lacks is the value undefined; arithmetic on   *)
(* either gives NaN, as in JavaScript.                                     *)

undefined == 0 - 2000000

IsNumber(a) == a # NaN /\ a # undefined

\* a + b, a - b, a * b and a / b on numbers in thousandths
Plus(a, b) == IF IsNumber(a) /\ IsNumber(b) THEN a + b ELSE NaN

Minus(a, b) == IF IsNumber(a) /\ IsNumber(b) THEN a - b ELSE NaN

Mul(a, b) ==
    IF IsNumber(a) /\ IsNumber(b)
    THEN (a \div 1000) * b + ((a % 1000) * b) \div 1000
    ELSE NaN

\* config.js NOISE_PARAMS (a frequency 1/96 is 10 thousandths)
NOISE_PARAMS ==
    [elevation   |-> [octaves |-> 5, frequency |-> 10, lacunarity |-> 2000, gain |-> 500],
     moisture    |-> [octaves |-> 4, frequency |-> 16, lacunarity |-> 2000, gain |-> 500],
     temperature |-> [octaves |-> 4, frequency |-> 4,  lacunarity |-> 2000, gain |-> 550],
     roughness   |-> [octaves |-> 3, frequency |-> 31, lacunarity |-> 2500, gain |-> 600],
     salinity    |-> [octaves |-> 3, frequency |-> 3,  lacunarity |-> 2000, gain |-> 500],
     fertility   |-> [octaves |-> 4, frequency |-> 5,  lacunarity |-> 2000, gain |-> 500],
     fire        |-> [octaves |-> 3, frequency |-> 8,  lacunarity |-> 2000, gain |-> 550]]

\* config.js GRADIENTS: the two scales in tiles, the three factors in thousandths
GRADIENTS ==
    [TEMP_LAT_GRAD_TILES |-> 8192, SAL_LAT_GRAD_TILES |-> 8192,
     TEMP_ELEV_COOLING |-> 250, SAL_ELEV_REDUCTION |-> 500, ROUGH_SLOPE_SCALE |-> 10000]

\* fade(t) = t * t * t * (t * (t * 6 - 15) + 10)
fade(t) == Mul(Mul(Mul(t, t), t), Mul(t, Mul(t, 6000) - 15000) + 10000)

\* lerp(a, b, t) = a + (b - a) * t
lerp(a, b, t) == a + Mul(b - a, t)

\* valueNoise2D past its Math.floor: the lattice cell (ix, iy) and the
\* position (fx, fy) in it
ValueNoiseIn(ix, iy, fx, fy, seed) ==
    lerp(lerp(hash2f(IntegerOf(ix), IntegerOf(iy), seed),
              hash2f(IntegerOf(ix + 1), IntegerOf(iy), seed), fade(fx)),
         lerp(hash2f(IntegerOf(ix), IntegerOf(iy + 1), seed),
              hash2f(IntegerOf(ix + 1), IntegerOf(iy + 1), seed), fade(fx)),
         fade(fy))

\* valueNoise2D(x, y, seed)
valueNoise2D(x, y, seed) ==
    ValueNoiseIn(x \div 1000, y \div 1000, x % 1000, y % 1000, seed)

RECURSIVE OctaveSamples(_, _, _, _, _, _)
\* the values n = valueNoise2D(nx, ny, seed) of the octaves i..octaves-1 of
\* the loop of fbm2
OctaveSamples(i, octaves, nx, ny, seed, lacunarity) ==
    IF i >= octaves THEN <<>>
    ELSE <<valueNoise2D(nx, ny, seed)>>
             \o OctaveSamples(i + 1, octaves, Mul(nx, lacunarity), Mul(ny, lacunarity),
                              seed, lacunarity)

\* the return of fbm2 without its division by ampSum
FbmReturnSum(sum, ampSum) == IF ampSum > 0 THEN sum \div 100000 ELSE 0

\* the return of fbm2: ampSum > 0 ? (sum / ampSum) : 0.0
FbmReturn(sum, ampSum) == IF ampSum > 0 THEN sum \div ampSum ELSE 0

RECURSIVE FbmLoop(_, _, _, _, _, _)
\* the loop of fbm2 from octave i on, over the values n of its octaves; amp
\* and ampSum are kept in units of 1/100000 and sum in their product with
\* thousandths
FbmLoop(samples, i, amp, sum, ampSum, gain) ==
    IF i > Len(samples) THEN FbmReturn(sum, ampSum)
    ELSE FbmLoop(samples, i + 1, (amp * gain) \div 1000,
                 sum + samples[i] * amp, ampSum + amp, gain)

\* a field of params, or the default of fbm2 if params lacks it
OrDefault(value, default) == IF value = undefined THEN default ELSE value

\* fbm2(x, y, seed, params)
fbm2(x, y, seed, params) ==
    FbmLoop(OctaveSamples(0, OrDefault(params.octaves, 4),
                          Mul(x, OrDefault(params.frequency, 10)),
                          Mul(y, OrDefault(params.frequency, 10)),
                          seed, OrDefault(params.lacunarity, 2000)),
            1, 100000, 0, 0, OrDefault(params.gain, 500))

\* world.js clamp01
Clamp01(x) == IF x = NaN THEN NaN ELSE IF x < 0 THEN 0 ELSE IF x > 1000 THEN 1000 ELSE x

\* a word as the integer argument it is when passed as a seed
NumberOfWord(w) == [neg |-> FALSE, mag |-> <<w.lo, w.hi>>]

\* mixSeed(a, k), for a the word of its first argument
mixSeed(a, k) ==
    ShiftRight(Avalanche(toUint32([neg |-> FALSE,
                                   low |-> Xor(a, toUint32(Times(IntegerOf(k), WordOf(40503, 31153))))])),
               0)

\* the argument a caller leaves out (undefined), as an object
absent == [absent |-> TRUE]

IsAbsent(object) == "absent" \in DOMAIN object

\* the field of a parameter object, or undefined if it lacks it
Field(object, name) == IF name \in DOMAIN object THEN object[name] ELSE undefined

\* params?.axis ?? NOISE_PARAMS.axis, with every field fbm2 reads
AxisParams(params, axis) ==
    LET given == IF ~IsAbsent(params) /\ axis \in DOMAIN params
                 THEN params[axis] ELSE NOISE_PARAMS[axis]
    IN  [octaves |-> Field(given, "octaves"), frequency |-> Field(given, "frequency"),
         lacunarity |-> Field(given, "lacunarity"), gain |-> Field(given, "gain")]

\* makeNoise(elevSeed, moistSeed, params, gradients): what the closure of
\* the sampler holds
makeNoise(elevSeed, moistSeed, params, gradients) ==
    [elevSeed  |-> elevSeed,
     moistSeed |-> moistSeed,
     tempSeed  |-> NumberOfWord(mixSeed(Xor(WordOfNumber(elevSeed), WordOfNumber(moistSeed)), 161)),
     roughSeed |-> NumberOfWord(mixSeed(WordOfNumber(elevSeed), 178)),
     salSeed   |-> NumberOfWord(mixSeed(WordOfNumber(moistSeed), 195)),
     fertSeed  |-> NumberOfWord(mixSeed(Xor(WordOfNumber(elevSeed),
                                            ShiftLeft(WordOfNumber(moistSeed), 1)), 212)),
     fireSeed  |-> NumberOfWord(mixSeed(Xor(WordOfNumber(moistSeed),
                                            ShiftLeft(WordOfNumber(elevSeed), 1)), 229)),
     elevParams  |-> AxisParams(params, "elevation"),
     moistParams |-> AxisParams(params, "moisture"),
     tempParams  |-> AxisParams(params, "temperature"),
     roughParams |-> AxisParams(params, "roughness"),
     salParams   |-> AxisParams(params, "salinity"),
     fertParams  |-> AxisParams(params, "fertility"),
     fireParams  |-> AxisParams(params, "fire"),
     TEMP_LAT_GRAD_TILES |-> Field(IF IsAbsent(gradients) THEN GRADIENTS ELSE gradients,
                                   "TEMP_LAT_GRAD_TILES"),
     SAL_LAT_GRAD_TILES  |-> Field(IF IsAbsent(gradients) THEN GRADIENTS ELSE gradients,
                                   "SAL_LAT_GRAD_TILES"),
     TEMP_ELEV_COOLING   |-> Field(IF IsAbsent(gradients) THEN GRADIENTS ELSE gradients,
                                   "TEMP_ELEV_COOLING"),
     SAL_ELEV_REDUCTION  |-> Field(IF IsAbsent(gradients) THEN GRADIENTS ELSE gradients,
                                   "SAL_ELEV_REDUCTION"),
     ROUGH_SLOPE_SCALE   |-> Field(IF IsAbsent(gradients) THEN GRADIENTS ELSE gradients,
                                   "ROUGH_SLOPE_SCALE")]

\* elevation(tx, ty) of a sampler that draws from a stream which advances
\* with every tile it has served
elevationDrawn(n, tx, ty) ==
    fbm2((tx + Cardinality(DOMAIN sampled)) * 1000, ty * 1000, n.elevSeed, n.elevParams)

\* elevation(tx, ty) of the sampler n
elevation(n, tx, ty) == fbm2(tx * 1000, ty * 1000, n.elevSeed, n.elevParams)

\* moisture(tx, ty) of the sampler n
moisture(n, tx, ty) == fbm2(tx * 1000 + 157310, ty * 1000 - 89970, n.moistSeed, n.moistParams)

\* Math.tanh(z), by its Pade approximant z (27 + z^2) / (27 + 9 z^2) up to 3
Tanh(z) ==
    IF z >= 3000 THEN 1000
    ELSE IF z <= 0 - 3000 THEN 0 - 1000
    ELSE (z * (27000 + Mul(z, z))) \div (27000 + 9 * Mul(z, z))

\* latSouth(y, scale) = 0.5 * (1 + Math.tanh(y / (scale || 4096))), for the
\* tile row y and the scale in tiles
latSouth(y, scale) ==
    (1000 + Tanh((y * 1000) \div (IF IsNumber(scale) /\ scale # 0 THEN scale ELSE 4096))) \div 2

\* Math.hypot(ex, ey)
hypot(ex, ey) == CHOOSE r \in 0..1500 : r * r <= ex * ex + ey * ey /\ ex * ex + ey * ey < (r + 1) * (r + 1)

\* Math.min(1, x)
MinOne(x) == IF x = NaN THEN NaN ELSE IF x < 1000 THEN x ELSE 1000

\* Math.abs(x)
AbsNumber(x) == IF x < 0 THEN 0 - x ELSE x

\* the lines of sampleAxes that compute temp, rough, sal, fert and fire
TempOf(n, tNoise, latT, elev) ==
    Clamp01(Plus(Minus(Mul(550, tNoise) + Mul(350, latT), Mul(n.TEMP_ELEV_COOLING, elev)), 100))

RoughOf(n, slope, rNoise) ==
    Clamp01(Plus(Mul(MinOne(Mul(slope, n.ROUGH_SLOPE_SCALE)), 700), Mul(rNoise, 300)))

SalOf(n, sNoise, latS, elev) ==
    Clamp01(Minus(Mul(500, sNoise) + Mul(400, latS),
                  Mul(Mul(n.SAL_ELEV_REDUCTION, elev), 500)))

FertOf(moist, elev, fNoise) ==
    Clamp01(Mul(750, Mul(600, moist) + Mul(300, 1000 - AbsNumber(elev - 350) * 2))
            + Mul(250, fNoise))

FireOf(moist, temp, elev, fireN) ==
    Clamp01(Plus(Plus(Mul(600, 1000 - moist), Mul(200, temp)),
                 Mul(150, 1000 - elev) + Mul(50, fireN)))

\* the object sampleAxes returns, from elev, moist and temp
AxesOf(n, tx, ty, elev, moist, temp) ==
    [temp  |-> temp,
     moist |-> moist,
     elev  |-> elev,
     rough |-> RoughOf(n, hypot(elevation(n, tx + 1, ty) - elevation(n, tx, ty),
                                elevation(n, tx, ty + 1) - elevation(n, tx, ty)),
                       fbm2(tx * 1000, ty * 1000, n.roughSeed, n.roughParams)),
     sal   |-> SalOf(n, fbm2(tx * 1000 - 233700, ty * 1000 + 411900, n.salSeed, n.salParams),
                     latSouth(ty, n.SAL_LAT_GRAD_TILES), elev),
     fert  |-> FertOf(moist, elev,
                      fbm2(tx * 1000 + 991100, ty * 1000 - 72300, n.fertSeed, n.fertParams)),
     fire  |-> FireOf(moist, temp, elev,
                      fbm2(tx * 1000 - 55200, ty * 1000 + 23700, n.fireSeed, n.fireParams))]

\* sampleAxes(tx, ty) of the sampler n, past elev and moist
SampleAxesFrom(n, tx, ty, elev, moist) ==
    AxesOf(n, tx, ty, elev, moist,
           TempOf(n, fbm2(tx * 1000, ty * 1000, n.tempSeed, n.tempParams),
                  latSouth(ty, n.TEMP_LAT_GRAD_TILES), elev))

\* sampleAxes(tx, ty) of the sampler n
SampleAxes(n, tx, ty) ==
    SampleAxesFrom(n, tx, ty, Clamp01(elevation(n, tx, ty)), Clamp01(moisture(n, tx, ty)))

----------------------------------------------------------------------------
(* The noise sampler.  sampleAxes is a pure function of the tile, fixed    *)
(* when makeNoise builds the sampler; the model lets it be any field that  *)
(* samples SpecialAxes on at most MaxSpecial tiles of the window and       *)
(* BackgroundAxes on every other tile of the plane.                        *)

BackgroundAxes ==
    [temp |-> 45, moist |-> 55, elev |-> 85, rough |-> 75, sal |-> 0, fert |-> 50, fire |-> 20]

SpecialAxes ==
    [temp |-> 80, moist |-> 95, elev |-> 20, rough |-> 15, sal |-> 0, fert |-> 10, fire |-> 60]

sampleAxes(tx, ty) ==
    IF <<tx, ty>> \in noise THEN SpecialAxes ELSE BackgroundAxes

\* the axes vectors sampleAxes can return
AxesSamples == {BackgroundAxes, SpecialAxes}

----------------------------------------------------------------------------
(* debug/context.js *)

\* getAxesAtTile: the sampler has sampleAxes, so the first branch is taken
getAxesAtTile(tx, ty) == sampleAxes(tx, ty)

\* createCommandContext: the ctx object handed to every command.  Its
\* classifyAxes(axes) is classifyAxesFn(axes), which reads ACTIVE_BIOMES and
\* CLASSIFY_WEIGHTS; as the classifier is pure and runs to completion, ctx
\* holds it tabulated over the axes the sampler can return.
RECURSIVE Tabulate(_, _, _)
Tabulate(samples, list, weights) ==
    IF samples = {} THEN <<>>
    ELSE LET axes == CHOOSE a \in samples : TRUE
         IN  (axes :> classifyAxes(axes, list, weights))
                 @@ Tabulate(samples \ {axes}, list, weights)

\* Tabulate for the built-in list, which TLC evaluates once
DefaultTable == Tabulate(AxesSamples, DEFAULT_ALABAMA_BIOMES, CLASSIFY_WEIGHTS)

\* classifyAxes with its default arguments, list = ACTIVE_BIOMES and
\* weights = CLASSIFY_WEIGHTS, tabulated
ClassifyActive ==
    IF ACTIVE_BIOMES = DEFAULT_ALABAMA_BIOMES THEN DefaultTable
    ELSE Tabulate(AxesSamples, ACTIVE_BIOMES, CLASSIFY_WEIGHTS)

createCommandContext == [classifyAxes |-> ClassifyActive]

\* biomes.js colorForAxes(axes): classifyAxes(axes, list, weights).color
colorForAxes(axes) == ClassifyActive[axes].color

----------------------------------------------------------------------------
(* debug/commands/findbiome.js *)

\* key(tx, ty) is the string `${tx},${ty}`, one string per pair of integers
key(tx, ty) == <<tx, ty>>

\* classifyIdAt(ctx, tx, ty): cls.id | 0
classifyIdAt(ctx, tx, ty) ==
    LET cls == ctx.classifyAxes[getAxesAtTile(tx, ty)]
    IN  IF cls.id = NaN THEN 0 ELSE cls.id

\* forEachRing whose left and right edges run over the corners too
forEachRingCorners(tx0, ty0, r, step) ==
    IF r = 0 THEN << <<tx0, ty0>> >>
    ELSE LET s == step
             x1 == tx0 - r * s
             x2 == tx0 + r * s
             y1 == ty0 - r * s
             y2 == ty0 + r * s
             nx == ((x2 - x1) \div s) + 1
             ny == ((y2 - y1) \div s) + 1              \* y = y1; y <= y2; y += s
             edgesTB == [k \in 1..(2 * nx) |->
                            <<x1 + ((k - 1) \div 2) * s, IF k % 2 = 1 THEN y1 ELSE y2>>]
             edgesLR == [k \in 1..(2 * ny) |->
                            <<IF k % 2 = 1 THEN x1 ELSE x2, y1 + ((k - 1) \div 2) * s>>]
         IN  edgesTB \o edgesLR

\* forEachRing(tx0, ty0, r, step, cb): the tiles cb is called on, in call order
forEachRing(tx0, ty0, r, step) ==
    IF r = 0 THEN << <<tx0, ty0>> >>
    ELSE LET s == step
             x1 == tx0 - r * s
             x2 == tx0 + r * s
             y1 == ty0 - r * s
             y2 == ty0 + r * s
             nx == ((x2 - x1) \div s) + 1              \* x = x1; x <= x2; x += s
             ny == Max(0, ((y2 - s) - (y1 + s)) \div s + 1)  \* y = y1+s; y <= y2-s; y += s
             edgesTB == [k \in 1..(2 * nx) |->
                            <<x1 + ((k - 1) \div 2) * s, IF k % 2 = 1 THEN y1 ELSE y2>>]
             edgesLR == [k \in 1..(2 * ny) |->
                            <<IF k % 2 = 1 THEN x1 ELSE x2, y1 + s + ((k - 1) \div 2) * s>>]
         IN  edgesTB \o edgesLR

dist2Tiles(tx0, ty0, tx, ty) ==
    LET dx == tx - tx0
        dy == ty - ty0
    IN  dx * dx + dy * dy

\* CoarseLimitR with the quotient rounded up instead of down
CoarseLimitRCeil(maxCheb, step) ==
    Max(0, (maxCheb + Max(1, step) - 1) \div Max(1, step))

\* Math.max(0, Math.floor(maxCheb / Math.max(1, step)))
CoarseLimitR(maxCheb, step) == Max(0, maxCheb \div Max(1, step))

\* the else branch of the id lookup: id = classifyIdAt(...); cache.set(k, id)
Classified(cache, tx, ty, id) ==
    [id |-> id, cache |-> (key(tx, ty) :> id) @@ cache, classified |-> TRUE]

\* the id lookup of both callbacks, for a tile with key k:
\*   if (cache.has(k)) id = cache.get(k);
\*   else { id = classifyIdAt(ctx, tx, ty); cache.set(k, id); }
\* classified tells whether classifyIdAt was called
LookupId(ctx, cache, tx, ty) ==
    IF key(tx, ty) \in DOMAIN cache
    THEN [id |-> cache[key(tx, ty)], cache |-> cache, classified |-> FALSE]
    ELSE Classified(cache, tx, ty, classifyIdAt(ctx, tx, ty))

\* the callback coarseFirstHit passes to forEachRing, applied to (tx, ty);
\* st holds visited, cache, checked, found and the log of classifyIdAt calls.
\* CoarseSeen is the callback past its visited guard, got the id looked up.
CoarseSeen(st, tx, ty, tx0, ty0, targetId, got) ==
    [visited |-> st.visited \cup {key(tx, ty)},
     cache   |-> got.cache,
     calls   |-> IF got.classified THEN Append(st.calls, key(tx, ty)) ELSE st.calls,
     checked |-> st.checked + 1,
     found   |-> IF got.id = targetId /\ st.found = null
                 THEN [tx |-> tx, ty |-> ty,
                       cheb |-> Max(Abs(tx - tx0), Abs(ty - ty0))]
                 ELSE st.found]

CoarseVisit(ctx, st, tx, ty, tx0, ty0, targetId) ==
    IF key(tx, ty) \in st.visited THEN st
    ELSE CoarseSeen(st, tx, ty, tx0, ty0, targetId, LookupId(ctx, st.cache, tx, ty))

\* forEachRing driving the coarse callback over one ring, from position i on
RECURSIVE CoarseRing(_, _, _, _, _, _, _)
CoarseRing(ctx, st, ring, i, tx0, ty0, targetId) ==
    IF i > Len(ring) THEN st
    ELSE CoarseRing(ctx, CoarseVisit(ctx, st, ring[i][1], ring[i][2], tx0, ty0, targetId),
                    ring, i + 1, tx0, ty0, targetId)

\* MemOf with a visited set and a cache of its own for every phase
MemOfUnshared(st) == [visited |-> {}, cache |-> <<>>, calls |-> st.calls]

\* the shared visited set and cache (and the log of classifier calls) of st
MemOf(st) == [visited |-> st.visited, cache |-> st.cache, calls |-> st.calls]

\* the loop for (r = 0; r <= limitR; r++) of coarseFirstHit, from ring r on;
\* CoarseRingDone is the end of the loop body, st1 the state after ring r:
\* if (found) { found.checked = checked; return found; }
RECURSIVE CoarseRings(_, _, _, _, _, _, _, _)
CoarseRingDone(ctx, st1, r, limitR, tx0, ty0, targetId, step) ==
    IF st1.found # null
    THEN [hit |-> [tx |-> st1.found.tx, ty |-> st1.found.ty,
                   cheb |-> st1.found.cheb, checked |-> st1.checked],
          mem |-> MemOf(st1)]
    ELSE CoarseRings(ctx, st1, r + 1, limitR, tx0, ty0, targetId, step)

CoarseRings(ctx, st, r, limitR, tx0, ty0, targetId, step) ==
    IF r > limitR THEN [hit |-> null, mem |-> MemOf(st)]
    ELSE CoarseRingDone(ctx,
                        CoarseRing(ctx, [st EXCEPT !.found = null],
                                   forEachRing(tx0, ty0, r, step), 1, tx0, ty0, targetId),
                        r, limitR, tx0, ty0, targetId, step)

\* coarseFirstHit(ctx, tx0, ty0, targetId, step, maxCheb, visited, cache);
\* mem is the shared visited set and cache; the result is the hit (or null)
\* together with mem as the call leaves it
coarseFirstHit(ctx, mem, tx0, ty0, targetId, step, maxCheb) ==
    CoarseRings(ctx,
                [visited |-> mem.visited, cache |-> mem.cache, calls |-> mem.calls,
                 checked |-> 0, found |-> null],
                0, CoarseLimitR(maxCheb, step), tx0, ty0, targetId, step)

\* the early exit taken as soon as any match is recorded
SqrtLeqAnyMatch(d2, r) == TRUE

\* the early exit with Math.sqrt(d2) < r
SqrtLeqStrict(d2, r) == d2 < r * r

\* Math.sqrt(d2) <= r, for integers d2 >= 0 and r >= 0 below 2^26
SqrtLeq(d2, r) == d2 <= r * r

\* ExactSeen without the test id === targetId
ExactSeenAnyId(st, tx, ty, tx0, ty0, targetId, got) ==
    [visited |-> st.visited \cup {key(tx, ty)},
     cache   |-> got.cache,
     calls   |-> IF got.classified THEN Append(st.calls, key(tx, ty)) ELSE st.calls,
     checked |-> st.checked + 1,
     best    |-> IF st.best = null \/ dist2Tiles(tx0, ty0, tx, ty) < st.best.d2
                 THEN [tx |-> tx, ty |-> ty, d2 |-> dist2Tiles(tx0, ty0, tx, ty)]
                 ELSE st.best]

\* the callback exactNearestWithinBound passes to forEachRing; ExactSeen is
\* the callback past its visited guard, got the id looked up
ExactSeen(st, tx, ty, tx0, ty0, targetId, got) ==
    [visited |-> st.visited \cup {key(tx, ty)},
     cache   |-> got.cache,
     calls   |-> IF got.classified THEN Append(st.calls, key(tx, ty)) ELSE st.calls,
     checked |-> st.checked + 1,
     best    |-> IF got.id = targetId
                    /\ (st.best = null \/ dist2Tiles(tx0, ty0, tx, ty) < st.best.d2)
                 THEN [tx |-> tx, ty |-> ty, d2 |-> dist2Tiles(tx0, ty0, tx, ty)]
                 ELSE st.best]

ExactVisit(ctx, st, tx, ty, tx0, ty0, targetId) ==
    IF key(tx, ty) \in st.visited THEN st
    ELSE ExactSeen(st, tx, ty, tx0, ty0, targetId, LookupId(ctx, st.cache, tx, ty))

RECURSIVE ExactRing(_, _, _, _, _, _, _)
ExactRing(ctx, st, ring, i, tx0, ty0, targetId) ==
    IF i > Len(ring) THEN st
    ELSE ExactRing(ctx, ExactVisit(ctx, st, ring[i][1], ring[i][2], tx0, ty0, targetId),
                   ring, i + 1, tx0, ty0, targetId)

\* the loop for (r = 0; r <= ubCheb; r++) of exactNearestWithinBound, from
\* ring r on; ExactRingDone is the early exit at the end of the loop body:
\* if (best && Math.sqrt(best.d2) <= r) break;
RECURSIVE ExactRings(_, _, _, _, _, _, _)
ExactRingDone(ctx, st1, r, ubCheb, tx0, ty0, targetId) ==
    IF st1.best # null /\ SqrtLeq(st1.best.d2, r) THEN st1
    ELSE ExactRings(ctx, st1, r + 1, ubCheb, tx0, ty0, targetId)

ExactRings(ctx, st, r, ubCheb, tx0, ty0, targetId) ==
    IF r > ubCheb THEN st
    ELSE ExactRingDone(ctx,
                       ExactRing(ctx, st, forEachRing(tx0, ty0, r, 1), 1,
                                 tx0, ty0, targetId),
                       r, ubCheb, tx0, ty0, targetId)

\* the end of exactNearestWithinBound: best with checked and ringsScanned
ExactResult(st, ubCheb) ==
    [best |-> IF st.best = null THEN null
              ELSE [tx |-> st.best.tx, ty |-> st.best.ty, d2 |-> st.best.d2,
                    checked |-> st.checked, ringsScanned |-> ubCheb],
     mem |-> MemOf(st)]

\* exactNearestWithinBound(ctx, tx0, ty0, targetId, ubCheb, visited, cache)
exactNearestWithinBound(ctx, mem, tx0, ty0, targetId, ubCheb) ==
    ExactResult(ExactRings(ctx,
                           [visited |-> mem.visited, cache |-> mem.cache,
                            calls |-> mem.calls, checked |-> 0, best |-> null],
                           0, ubCheb, tx0, ty0, targetId),
                ubCheb)

\* HintBound with the bound set one ring short of the hint
HintBoundShort(hint, startTx, startTy, maxCheb) ==
    IF hint = null THEN maxCheb
    ELSE LET hintCheb == Max(Abs(hint.tx - startTx), Abs(hint.ty - startTy))
         IN  IF hintCheb > 0 /\ hintCheb < maxCheb THEN hintCheb - 1 ELSE maxCheb

\* the hint of findNearestBiome: upperBound after the `if (hint)` block
HintBound(hint, startTx, startTy, maxCheb) ==
    IF hint = null THEN maxCheb
    ELSE LET hintCheb == Max(Abs(hint.tx - startTx), Abs(hint.ty - startTy))
         IN  IF hintCheb > 0 /\ hintCheb < maxCheb THEN hintCheb ELSE maxCheb

\* while (s > 1) { steps.push(s); s = Math.max(1, Math.floor(s / 2)); if (s === 1) break; }
RECURSIVE StepsHalving(_)
StepsHalving(s) ==
    IF s > 1
    THEN LET n == Max(1, s \div 2)
         IN  <<s>> \o (IF n = 1 THEN <<>> ELSE StepsHalving(n))
    ELSE <<>>

\* for (const extra of [16, 8, 4, 2]) if (!steps.includes(extra) && extra <= base) push
RECURSIVE StepsExtras(_, _, _, _)
StepsExtras(steps, extras, i, base) ==
    IF i > Len(extras) THEN steps
    ELSE LET extra == extras[i]
             has == \E j \in DOMAIN steps : steps[j] = extra
         IN  StepsExtras(IF ~has /\ extra <= base THEN Append(steps, extra) ELSE steps,
                         extras, i + 1, base)

\* steps.sort((a, b) => b - a): insertion of x into a descending sequence
RECURSIVE InsertDesc(_, _)
InsertDesc(sorted, x) ==
    IF sorted = <<>> THEN <<x>>
    ELSE IF x > Head(sorted) THEN <<x>> \o sorted
         ELSE <<Head(sorted)>> \o InsertDesc(Tail(sorted), x)

RECURSIVE SortDesc(_)
SortDesc(seq) ==
    IF seq = <<>> THEN <<>> ELSE InsertDesc(SortDesc(Tail(seq)), Head(seq))

\* the coarse strides sorted ascending
CoarseStepsAscending ==
    LET base == Max(2, CHUNK_SIZE)
        steps == SortDesc(StepsExtras(StepsHalving(base), <<16, 8, 4, 2>>, 1, base))
    IN  [i \in 1..Len(steps) |-> steps[Len(steps) + 1 - i]]

\* the coarse strides of findNearestBiome
CoarseSteps ==
    LET base == Max(2, CHUNK_SIZE)
    IN  SortDesc(StepsExtras(StepsHalving(base), <<16, 8, 4, 2>>, 1, base))

\* the loop for (const step of steps) of findNearestBiome, from position i on;
\* CoarseStepDone is the loop body after coarseFirstHit returned c
RECURSIVE CoarseLoop(_, _, _, _, _, _, _, _, _)
CoarseStepDone(ctx, c, steps, i, upperBound, stepStats, startTx, startTy, targetId) ==
    IF c.hit # null
    THEN [coarseHit |-> c.hit, upperBound |-> Min(upperBound, c.hit.cheb),
          mem |-> c.mem,
          stepStats |-> Append(stepStats, [step |-> steps[i], checked |-> c.hit.checked])]
    ELSE CoarseLoop(ctx, c.mem, steps, i + 1, upperBound,
                    Append(stepStats, [step |-> steps[i], checked |-> 0]),
                    startTx, startTy, targetId)

CoarseLoop(ctx, mem, steps, i, upperBound, stepStats, startTx, startTy, targetId) ==
    IF i > Len(steps)
    THEN [coarseHit |-> null, upperBound |-> upperBound, mem |-> mem,
          stepStats |-> stepStats]
    ELSE CoarseStepDone(ctx,
                        coarseFirstHit(ctx, mem, startTx, startTy, targetId,
                                       steps[i], upperBound),
                        steps, i, upperBound, stepStats, startTx, startTy, targetId)

\* LAST_HIT.get(targetId); a missing entry is undefined, which `if (hint)` skips
HintGet(hints, targetId) ==
    IF targetId \in DOMAIN hints THEN hints[targetId] ELSE null

\* LAST_HIT.set on a Map emptied first
HintSetAlone(hints, targetId, tx, ty) == (targetId :> [tx |-> tx, ty |-> ty])

\* LAST_HIT.set(targetId, {tx, ty})
HintSet(hints, targetId, tx, ty) == (targetId :> [tx |-> tx, ty |-> ty]) @@ hints

\* the `if (!coarseHit)` block: the exact search up to the bound, or null
NoCoarseReturn(co, exact, targetId) ==
    IF exact.best # null
    THEN [res |-> [tx |-> exact.best.tx, ty |-> exact.best.ty, d2 |-> exact.best.d2,
                   checked |-> Cardinality(exact.mem.visited),
                   stepStats |-> co.stepStats, bounded |-> co.upperBound,
                   exact |-> TRUE],
          hints |-> HintSet(LAST_HIT, targetId, exact.best.tx, exact.best.ty)]
    ELSE [res |-> null, hints |-> LAST_HIT]

\* FallbackReturn without its LAST_HIT.set
FallbackReturnNoHint(co, exact, targetId, startTx, startTy) ==
    [res |-> [tx |-> co.coarseHit.tx, ty |-> co.coarseHit.ty,
              d2 |-> dist2Tiles(startTx, startTy, co.coarseHit.tx, co.coarseHit.ty),
              checked |-> Cardinality(exact.mem.visited),
              stepStats |-> co.stepStats, bounded |-> co.upperBound,
              exact |-> FALSE],
     hints |-> LAST_HIT]

\* the `if (!exact)` block: fall back to the coarse hit tile
FallbackReturn(co, exact, targetId, startTx, startTy) ==
    [res |-> [tx |-> co.coarseHit.tx, ty |-> co.coarseHit.ty,
              d2 |-> dist2Tiles(startTx, startTy, co.coarseHit.tx, co.coarseHit.ty),
              checked |-> Cardinality(exact.mem.visited),
              stepStats |-> co.stepStats, bounded |-> co.upperBound,
              exact |-> FALSE],
     hints |-> HintSet(LAST_HIT, targetId, co.coarseHit.tx, co.coarseHit.ty)]

\* the final return: the exact refinement found a tile
ExactReturn(co, exact, targetId) ==
    [res |-> [tx |-> exact.best.tx, ty |-> exact.best.ty, d2 |-> exact.best.d2,
              checked |-> Cardinality(exact.mem.visited),
              stepStats |-> co.stepStats, bounded |-> co.upperBound,
              exact |-> TRUE],
     hints |-> HintSet(LAST_HIT, targetId, exact.best.tx, exact.best.ty)]

\* findNearestBiome after both phases: co is what the coarse loop left, exact
\* what exactNearestWithinBound returned.  Besides the result (res) and the
\* new hint map (hints) the model reports the classifier calls made (calls)
\* and the coarse hit.  The result's field d2 stands for tiles = Math.sqrt(d2).
SearchReturn(co, exact, startTx, startTy, targetId) ==
    LET ret == IF co.coarseHit = null THEN NoCoarseReturn(co, exact, targetId)
               ELSE IF exact.best = null
                    THEN FallbackReturn(co, exact, targetId, startTx, startTy)
                    ELSE ExactReturn(co, exact, targetId)
    IN  [res |-> ret.res, hints |-> ret.hints, calls |-> exact.mem.calls,
         coarseHit |-> co.coarseHit]

\* findNearestBiome after the coarse loop: the exact phase within the bound
SearchRefine(ctx, co, startTx, startTy, targetId) ==
    SearchReturn(co,
                 exactNearestWithinBound(ctx, co.mem, startTx, startTy, targetId,
                                         co.upperBound),
                 startTx, startTy, targetId)

\* findNearestBiome(ctx, startTx, startTy, targetId, opts)
findNearestBiome(ctx, startTx, startTy, targetId, opts) ==
    SearchRefine(ctx,
                 CoarseLoop(ctx, [visited |-> {}, cache |-> <<>>, calls |-> <<>>],
                            CoarseSteps, 1,
                            HintBound(HintGet(LAST_HIT, targetId), startTx, startTy,
                                      Max(1, opts.maxTiles)),
                            <<>>, startTx, startTy, targetId),
                 startTx, startTy, targetId)

----------------------------------------------------------------------------
(* world/chunk.js *)

\* chunkKey(cx, cy) is the string `${cx},${cy}`, one string per pair of integers
chunkKey(cx, cy) == <<cx, cy>>

\* grayHex(v): i = Math.max(0, Math.min(255, Math.round(v * 255))), and the
\* colour '#hhhhhh' of the byte i; v is in hundredths, Math.round rounds half up
grayHex(v) ==
    LET i == Max(0, Min(255, (v * 255 + 50) \div 100))
    IN  <<i, i, i>>

\* the colour of one tile: colorForAxes(axes) in mode 'biomes', else the gray
\* of the axis named by the mode (0 where Number(axes[viewMode]) is not finite)
TileColor(axes, mode) ==
    IF mode = "biomes" THEN colorForAxes(axes)
    ELSE IF mode \in DOMAIN axes THEN grayHex(clamp01(axes[mode]))
         ELSE grayHex(0)

\* the local tile coordinates (tx, ty) a canvas is kept for
RasterTiles == {<<tx, ty>> : tx \in 0..(RasterSide - 1), ty \in 0..(RasterSide - 1)}

\* generateChunkCanvas(cx, cy, noise, viewMode): the fill colour of every
\* tile; the sampler has sampleAxes, so axes = noise.sampleAxes(wtx, wty)
generateChunkCanvas(cx, cy, mode) ==
    [t \in RasterTiles |->
        TileColor(sampleAxes(cx * CHUNK_SIZE + t[1], cy * CHUNK_SIZE + t[2]), mode)]

----------------------------------------------------------------------------
(* world/world.js *)

VIEW_MODES == {"biomes", "temp", "moist", "elev", "rough", "sal", "fert", "fire"}

\* what a World call leaves in lastOp; during tells where a load attempt
\* stood when the call was made and list is the ACTIVE_BIOMES it ran on
CallRecord(op, cx, cy, mode, threw, returned, generated) ==
    [op |-> op, cx |-> cx, cy |-> cy, mode |-> mode, threw |-> threw,
     returned |-> returned, generated |-> generated,
     before |-> [viewMode |-> viewMode, chunks |-> chunks],
     during |-> loading, list |-> ACTIVE_BIOMES]

\* getChunkCanvas when the Map holds a canvas for the key: return it
GetHit(cx, cy) ==
    /\ lastOp' = CallRecord("getChunkCanvas", cx, cy, "", FALSE,
                            chunks[chunkKey(cx, cy)], FALSE)
    /\ UNCHANGED <<viewMode, chunks, chunkMode, generations, modeLog>>

\* GetMiss returning the generated canvas without this.chunks.set(key, canvas)
GetMissNoStore(cx, cy) ==
    /\ generations[chunkKey(cx, cy)] < MaxGenerations
    /\ generations' = [generations EXCEPT ![chunkKey(cx, cy)] = @ + 1]
    /\ lastOp' = CallRecord("getChunkCanvas", cx, cy, "", FALSE,
                            generateChunkCanvas(cx, cy, viewMode), TRUE)
    /\ UNCHANGED <<viewMode, chunks, chunkMode, modeLog>>

\* getChunkCanvas when the Map holds none: generate under this.viewMode,
\* store and return
GetMiss(cx, cy) ==
    /\ generations[chunkKey(cx, cy)] < MaxGenerations
    /\ chunks' = (chunkKey(cx, cy) :> generateChunkCanvas(cx, cy, viewMode)) @@ chunks
    /\ chunkMode' = (chunkKey(cx, cy) :> viewMode) @@ chunkMode
    /\ generations' = [generations EXCEPT ![chunkKey(cx, cy)] = @ + 1]
    /\ lastOp' = CallRecord("getChunkCanvas", cx, cy, "", FALSE,
                            generateChunkCanvas(cx, cy, viewMode), TRUE)
    /\ UNCHANGED <<viewMode, modeLog>>

\* World.getChunkCanvas(cx, cy)
getChunkCanvas(cx, cy) ==
    /\ IF chunkKey(cx, cy) \in DOMAIN chunks THEN GetHit(cx, cy) ELSE GetMiss(cx, cy)
    /\ UNCHANGED <<noise, ACTIVE_BIOMES, LAST_HIT, search>>
    /\ UNCHANGED biomeVars
    /\ UNCHANGED noiseVars
    /\ UNCHANGED phase
    /\ UNCHANGED shellVars

\* clearChunks that leaves one canvas in the Map
clearChunksButOne ==
    IF chunks = <<>> THEN <<>>
    ELSE LET k == CHOOSE k \in DOMAIN chunks : TRUE
         IN  (k :> chunks[k])

\* World.clearChunks(): this.chunks.clear(), the Map it leaves
clearChunks == <<>>

\* modeLog with mode m appended, the oldest entry dropped beyond ModeLogLen
LogMode(m) ==
    IF Len(modeLog) < ModeLogLen THEN Append(modeLog, m)
    ELSE Append(Tail(modeLog), m)

\* AdoptMode without the call of clearChunks
AdoptModeKeepChunks(m) ==
    /\ viewMode' = m
    /\ modeLog' = LogMode(m)
    /\ UNCHANGED <<chunks, chunkMode, generations>>

\* setViewMode when m !== this.viewMode: this.viewMode = m; this.clearChunks()
AdoptMode(m) ==
    /\ viewMode' = m
    /\ chunks' = clearChunks
    /\ chunkMode' = [k \in DOMAIN chunks' |-> chunkMode[k]]
    /\ generations' = [r \in DOMAIN generations |-> 0]
    /\ modeLog' = LogMode(m)

\* SetValidMode that clears and adopts without comparing m to this.viewMode
SetValidModeAlways(mode, m) ==
    /\ AdoptMode(m)
    /\ lastOp' = CallRecord("setViewMode", 0, 0, mode, FALSE, null, FALSE)

\* setViewMode past its validity check, m the lower-cased mode
SetValidMode(mode, m) ==
    /\ IF m # viewMode THEN AdoptMode(m)
       ELSE UNCHANGED <<viewMode, chunks, chunkMode, generations, modeLog>>
    /\ lastOp' = CallRecord("setViewMode", 0, 0, mode, FALSE, null, FALSE)

\* SetInvalidMode that has assigned the mode and cleared before it throws
SetInvalidModeAssigned(mode) ==
    /\ AdoptMode(toLowerCase(mode))
    /\ lastOp' = CallRecord("setViewMode", 0, 0, mode, TRUE, null, FALSE)

\* setViewMode throwing `Invalid view mode`: the World is left as it was
SetInvalidMode(mode) ==
    /\ lastOp' = CallRecord("setViewMode", 0, 0, mode, TRUE, null, FALSE)
    /\ UNCHANGED <<viewMode, chunks, chunkMode, generations, modeLog>>

\* World.setViewMode(mode)
setViewMode(mode) ==
    /\ IF toLowerCase(mode) \notin VIEW_MODES THEN SetInvalidMode(mode)
       ELSE SetValidMode(mode, toLowerCase(mode))
    /\ UNCHANGED <<noise, ACTIVE_BIOMES, LAST_HIT, search>>
    /\ UNCHANGED biomeVars
    /\ UNCHANGED noiseVars
    /\ UNCHANGED phase
    /\ UNCHANGED shellVars

----------------------------------------------------------------------------
(* input/keyboard.js: createKeyboard().  The handler is the record of its   *)
(* closure variables enabled, listening and down; destroyed and recorded    *)
(* are history: whether destroy() was called, and the codes down.add ever   *)
(* got.  A key event is its code and whether its target is a typing target. *)

tracked ==
    {"KeyW", "KeyA", "KeyS", "KeyD", "ArrowUp", "ArrowLeft", "ArrowDown", "ArrowRight"}

\* addListeners(): both listeners are on window afterwards
addListeners(k) == [k EXCEPT !.listening = TRUE]

\* removeListeners(): no listener is on window afterwards
removeListeners(k) == [k EXCEPT !.listening = FALSE]

\* createKeyboard(): enabled, nothing down, addListeners() called
createKeyboard ==
    addListeners([enabled |-> TRUE, listening |-> FALSE, down |-> {},
                  destroyed |-> FALSE, recorded |-> {}])

\* onKeyDown(e)
onKeyDown(k, code, typing) ==
    IF ~k.enabled THEN k
    ELSE IF typing THEN k
    ELSE IF code \in tracked
         THEN [k EXCEPT !.down = @ \cup {code}, !.recorded = @ \cup {code}]
    ELSE k

\* onKeyUp(e): a tracked code is deleted from down whatever the target
onKeyUp(k, code, typing) ==
    IF ~k.enabled THEN k
    ELSE IF code \in tracked THEN [k EXCEPT !.down = @ \ {code}]
    ELSE k

\* what window does with a keydown event that reaches it
WindowKeyDown(k, code, typing) ==
    IF k.listening THEN onKeyDown(k, code, typing) ELSE k

\* what window does with a keyup event that reaches it
WindowKeyUp(k, code, typing) ==
    IF k.listening THEN onKeyUp(k, code, typing) ELSE k

\* axis(): <<x, y>>
axis(k) ==
    <<(IF k.down \cap {"KeyD", "ArrowRight"} # {} THEN 1 ELSE 0)
        - (IF k.down \cap {"KeyA", "ArrowLeft"} # {} THEN 1 ELSE 0),
      (IF k.down \cap {"KeyS", "ArrowDown"} # {} THEN 1 ELSE 0)
        - (IF k.down \cap {"KeyW", "ArrowUp"} # {} THEN 1 ELSE 0)>>

\* clear() that leaves down as it is
clearNothing(k) == k

\* clear(): down.clear()
clear(k) == [k EXCEPT !.down = {}]

\* destroy(): removeListeners(); down.clear()
destroy(k) == [clear(removeListeners(k)) EXCEPT !.destroyed = TRUE]

\* setEnabled(v), v a boolean
setEnabled(k, v) ==
    IF v = k.enabled THEN k
    ELSE IF v THEN addListeners([k EXCEPT !.enabled = v])
    ELSE removeListeners([k EXCEPT !.enabled = v])

----------------------------------------------------------------------------
(* input/keyboard.js: DebugConsole, with its panel, input and output        *)
(* present.  output is the texts of the children of #debug-output.          *)

\* the most lines the output keeps: opts.maxLines of the model
MaxLogLines == 2

DebugConsole == [open |-> FALSE, output |-> <<>>]

\* log(line): append, and drop the first lines beyond maxLines
log(c, line) ==
    [c EXCEPT !.output =
        IF Len(@) < MaxLogLines THEN Append(@, line)
        ELSE Append(SubSeq(@, Len(@) - MaxLogLines + 2, Len(@)), line)]

\* toggle(force), args the arguments of the call: <<>> or <<force>>
toggle(c, args) ==
    IF (IF Len(args) > 0 THEN args[1] ELSE ~c.open)
    THEN log([c EXCEPT !.open = TRUE], "Opened debug console")
    ELSE [c EXCEPT !.open = FALSE]

\* isOpen()
isOpen(c) == c.open

----------------------------------------------------------------------------
(* main.js: the listeners that tie the keyboard handler to the console.     *)

\* the focus and blur listeners of #debug-input: kb.clear()
clearKeys(k) == clear(k)

\* the listener of debugconsole:toggle: kb.setEnabled(!open); kb.clear()
onConsoleToggle(k, open) == clear(setEnabled(k, ~open))

\* what a call of debugConsole.toggle does to the handler: the input gains
\* or loses focus, then the toggle event is dispatched
ToggleKeys(k, open) == onConsoleToggle(clearKeys(k), open)

\* the keydown listener of main.js on a Backquote, run after the handler's
\* own listener: toggle(), then kb.setEnabled(!isOpen) and kb.clear()
onBackquote(k, c, typing) ==
    clear(setEnabled(ToggleKeys(WindowKeyDown(k, "Backquote", typing),
                                isOpen(toggle(c, <<>>))),
                     ~isOpen(toggle(c, <<>>))))

\* the keydown listener of the console input on Escape, toggle(false), and
\* then window's listeners
onEscape(k, c) == WindowKeyDown(ToggleKeys(k, isOpen(toggle(c, <<FALSE>>))), "Escape", TRUE)

\* the capture listener of the console input: a plain KeyW, KeyA, KeyS or
\* KeyD whose default nobody prevented is stopped before it reaches window
StoppedAtInput(code, typing) == typing /\ code \in {"KeyW", "KeyA", "KeyS", "KeyD"}

----------------------------------------------------------------------------
(* debug/registry.js: createCommandRegistry().  A line is the sequence of   *)
(* its parts, a part being a word or " ", a run of white space; a command   *)
(* spec is its name and aliases, and what its run does is drawn when        *)
(* execute calls it: it returns, having printed or not, or it throws.       *)

createCommandRegistry == [byName |-> <<>>, specs |-> {}, last |-> null]

\* the names register(spec) sets in byName: the name and the aliases,
\* lower-cased
NamesOf(spec) ==
    {toLowerCase(spec.name)} \cup {toLowerCase(spec.aliases[i]) : i \in DOMAIN spec.aliases}

\* register(spec), for a spec with a name
register(reg, spec) ==
    [reg EXCEPT !.specs = @ \cup {spec},
                !.byName = [n \in DOMAIN @ \cup NamesOf(spec) |->
                               IF n \in NamesOf(spec) THEN spec ELSE @[n]]]

\* find(name): byName.get(String(name || '').toLowerCase()) || null
find(reg, name) ==
    IF toLowerCase(name) \in DOMAIN reg.byName THEN reg.byName[toLowerCase(name)]
    ELSE null

\* String(line || '').trim().split(/\s+/), <<>> for a text that trims to ''
Words(line) == SelectSeq(line, LAMBDA part : trim(part) # "")

\* parse(line); cmd is "" where the code gives null, which execute tests
\* with !cmd
parse(line) ==
    IF Words(line) = <<>> THEN [cmd |-> "", args |-> <<>>]
    ELSE [cmd |-> Head(Words(line)), args |-> Tail(Words(line))]

\* the values a run of the model throws: an Error with a message, an Error
\* without one, a string and null
Thrown ==
    {[kind |-> "Error", message |-> "Invalid view mode"],
     [kind |-> "Error", message |-> ""],
     [kind |-> "string", value |-> "oops"],
     [kind |-> "null"]}

\* String(err)
StringOf(err) ==
    IF err.kind = "Error" THEN (IF err.message = "" THEN "Error" ELSE err.message)
    ELSE IF err.kind = "string" THEN err.value
    ELSE "null"

\* err && err.message ? err.message : String(err)
MessageOf(err) ==
    IF err.kind = "Error" /\ err.message # "" THEN err.message ELSE StringOf(err)

\* what a run does when called
Outcomes ==
    {[throws |-> FALSE, printed |-> <<>>],
     [throws |-> FALSE, printed |-> <<<<"view: set mode to ", "temp">>>>]}
    \cup {[throws |-> TRUE, err |-> err] : err \in Thrown}

\* execute without its try: what run throws leaves execute
Uncaught(err) == [propagated |-> TRUE, printed |-> <<>>]

\* the catch block of execute: ctx.print(`Error: ${msg}`)
Caught(err) == [propagated |-> FALSE, printed |-> <<<<"Error: ", MessageOf(err)>>>>]

\* execute past find, spec being the command found
RunSpec(spec, outcome) ==
    IF outcome.throws
    THEN [ran |-> spec, propagated |-> Caught(outcome.err).propagated,
          printed |-> Caught(outcome.err).printed]
    ELSE [ran |-> spec, propagated |-> FALSE, printed |-> outcome.printed]

\* execute(line, ctx): the command it ran, whether an exception left it and
\* what it gave ctx.print
execute(reg, line, outcome) ==
    IF parse(line).cmd = ""
    THEN [ran |-> null, propagated |-> FALSE, printed |-> <<>>]
    ELSE IF find(reg, parse(line).cmd) = null
    THEN [ran |-> null, propagated |-> FALSE,
          printed |-> <<<<"Unknown command: ", parse(line).cmd>>>>]
    ELSE RunSpec(find(reg, parse(line).cmd), outcome)

\* the built-in commands main.js registers
helpCmd == [name |-> "help", aliases |-> <<"?">>]
viewCmd == [name |-> "view", aliases |-> <<"viewmode", "layer">>]
tileCmd == [name |-> "tile", aliases |-> <<"where">>]

\* ctx.print of main.js, line after line: debugConsole.log(line)
RECURSIVE PrintAll(_, _)
PrintAll(c, lines) ==
    IF lines = <<>> THEN c ELSE PrintAll(log(c, Head(lines)), Tail(lines))

----------------------------------------------------------------------------
(* main.js: start() and frame(), and the events of the page.                *)

\* the most frames of a behaviour
MaxFrames == 2

\* the widths, in regions, handleResize gives the canvas
Widths == {1, 2}

\* before start() is called: no animation frame requested, none run
NotStarted == [start |-> "idle", requested |-> FALSE, frames |-> 0, width |-> 1]

\* start() that goes on without awaiting the load attempt
NotAwaited == TRUE

\* await tryLoadBiomesFromCSV(): start() goes on once the attempt settled
Awaited == loading = "idle"

\* what an action of the shell leaves alone
ShellFrame ==
    /\ UNCHANGED <<noise, ACTIVE_BIOMES>>
    /\ UNCHANGED searchVars
    /\ UNCHANGED worldVars
    /\ UNCHANGED biomeVars
    /\ UNCHANGED noiseVars
    /\ UNCHANGED phase

\* start() up to its await: handleResize(), and tryLoadBiomesFromCSV() up
\* to `await fetch(url, ...)`
Start ==
    /\ boot.start = "idle"
    /\ loading = "idle"
    /\ loading' = "fetch"
    /\ boot' = [boot EXCEPT !.start = "awaiting"]
    /\ UNCHANGED <<noise, ACTIVE_BIOMES, biomeOp, kb, debugConsole, registry>>
    /\ UNCHANGED searchVars
    /\ UNCHANGED worldVars
    /\ UNCHANGED noiseVars
    /\ UNCHANGED phase

\* start() after its await: last = performance.now();
\* requestAnimationFrame(frame)
Resume ==
    /\ boot.start = "awaiting"
    /\ Awaited
    /\ boot' = [boot EXCEPT !.start = "done", !.requested = TRUE]
    /\ UNCHANGED <<kb, debugConsole, registry>>
    /\ ShellFrame

\* frame(now) with region (cx, cy) in view: renderer.render calls
\* world.getChunkCanvas(cx, cy), and frame requests the next frame
Frame(cx, cy) ==
    /\ boot.requested
    /\ boot.frames < MaxFrames
    /\ boot' = [boot EXCEPT !.frames = @ + 1]
    /\ IF chunkKey(cx, cy) \in DOMAIN chunks THEN GetHit(cx, cy) ELSE GetMiss(cx, cy)
    /\ UNCHANGED <<noise, ACTIVE_BIOMES, LAST_HIT, search>>
    /\ UNCHANGED biomeVars
    /\ UNCHANGED noiseVars
    /\ UNCHANGED phase
    /\ UNCHANGED <<kb, debugConsole, registry>>

\* the resize listener: handleResize() sizes the canvas and draws nothing
Resize(width) ==
    /\ boot' = [boot EXCEPT !.width = width]
    /\ UNCHANGED <<kb, debugConsole, registry>>
    /\ ShellFrame

\* a keydown event of a code other than Backquote and Escape
KeyDown(code, typing) ==
    /\ kb' = IF StoppedAtInput(code, typing) THEN kb ELSE WindowKeyDown(kb, code, typing)
    /\ UNCHANGED <<boot, debugConsole, registry>>
    /\ ShellFrame

\* a keyup event
KeyUp(code, typing) ==
    /\ kb' = WindowKeyUp(kb, code, typing)
    /\ UNCHANGED <<boot, debugConsole, registry>>
    /\ ShellFrame

\* a keydown event of Backquote
Backquote(typing) ==
    /\ debugConsole' = toggle(debugConsole, <<>>)
    /\ kb' = onBackquote(kb, debugConsole, typing)
    /\ UNCHANGED <<boot, registry>>
    /\ ShellFrame

\* a keydown event of Escape in the console input
Escape ==
    /\ debugConsole' = toggle(debugConsole, <<FALSE>>)
    /\ kb' = onEscape(kb, debugConsole)
    /\ UNCHANGED <<boot, registry>>
    /\ ShellFrame

\* the beforeunload listener: kb.destroy()
Destroy ==
    /\ kb' = destroy(kb)
    /\ UNCHANGED <<boot, debugConsole, registry>>
    /\ ShellFrame

\* a call kb.setEnabled(v)
SetEnabled(v) ==
    /\ kb' = setEnabled(kb, v)
    /\ UNCHANGED <<boot, debugConsole, registry>>
    /\ ShellFrame

\* a call kb.clear()
Clear ==
    /\ kb' = clear(kb)
    /\ UNCHANGED <<boot, debugConsole, registry>>
    /\ ShellFrame

\* a call registry.register(spec)
Register(spec) ==
    /\ registry' = register(registry, spec)
    /\ UNCHANGED <<boot, kb, debugConsole>>
    /\ ShellFrame

\* a call registry.execute(line, ctx) in which run, if called, does what
\* outcome says; last keeps the call, the Map before it and whether the
\* run of the call before it threw
Execute(line, outcome) ==
    /\ registry' =
           [registry EXCEPT !.last =
               [line |-> line, outcome |-> outcome,
                result |-> execute(registry, line, outcome),
                before |-> registry.byName,
                afterThrow |-> /\ registry.last # null
                               /\ registry.last.result.ran # null
                               /\ registry.last.outcome.throws]]
    /\ debugConsole' = PrintAll(debugConsole, execute(registry, line, outcome).printed)
    /\ UNCHANGED <<boot, kb>>
    /\ ShellFrame

----------------------------------------------------------------------------
(* The state machine of the search *)

\* the subsets of S with at most k elements
RECURSIVE SubsetsUpTo(_, _)
SubsetsUpTo(S, k) ==
    IF k = 0 THEN {{}}
    ELSE LET P == SubsetsUpTo(S, k - 1)
         IN  P \cup {p \cup {x} : p \in P, x \in S}

\* the biome ids searched for: the class of BackgroundAxes and of SpecialAxes
TargetIds == {1, 7}

InitSearch ==
    /\ noise \in SubsetsUpTo(Tiles, MaxSpecial)
    /\ ACTIVE_BIOMES = DEFAULT_ALABAMA_BIOMES
    /\ LAST_HIT = <<>>
    /\ search = null
    /\ viewMode = "biomes"
    /\ chunks = <<>>
    /\ chunkMode = <<>>
    /\ generations = [r \in Regions |-> 0]
    /\ modeLog = <<"biomes">>
    /\ lastOp = null
    /\ loading = "idle"
    /\ biomeOp = null
    /\ sampler = null
    /\ noiseIn = null
    /\ noiseOp = null
    /\ sampled = <<>>
    /\ phase = null
    /\ boot = NotStarted
    /\ kb = createKeyboard
    /\ debugConsole = DebugConsole
    /\ registry = createCommandRegistry

\* the state after findNearestBiome returned out
SearchDone(startTx, startTy, targetId, maxTiles, hint, out) ==
    /\ LAST_HIT' = out.hints
    /\ search' = [startTx |-> startTx, startTy |-> startTy,
                  targetId |-> targetId, maxTiles |-> maxTiles,
                  hint |-> hint, res |-> out.res, calls |-> out.calls,
                  coarseHit |-> out.coarseHit,
                  during |-> loading, list |-> ACTIVE_BIOMES]
    /\ UNCHANGED <<noise, ACTIVE_BIOMES>>
    /\ UNCHANGED worldVars
    /\ UNCHANGED biomeVars
    /\ UNCHANGED noiseVars
    /\ UNCHANGED phase
    /\ UNCHANGED shellVars

\* one call of findNearestBiome, as the findbiome command's run() makes it
FindNearestBiome(startTx, startTy, targetId, maxTiles) ==
    SearchDone(startTx, startTy, targetId, maxTiles, HintGet(LAST_HIT, targetId),
               findNearestBiome(createCommandContext, startTx, startTy, targetId,
                                [maxTiles |-> maxTiles]))

NextSearch ==
    \E start \in Starts, targetId \in TargetIds, maxTiles \in 1..MaxRadius :
        FindNearestBiome(start[1], start[2], targetId, maxTiles)

SpecSearch == InitSearch /\ [][NextSearch]_vars

----------------------------------------------------------------------------
(* The state machine of the World: a fresh World (empty Map, mode 'biomes') *)
(* over any sampler, then any sequence of getChunkCanvas and setViewMode    *)
(* calls.                                                                   *)

\* the world tiles the canvases of Regions are kept for
WorldTiles ==
    {<<r[1] * CHUNK_SIZE + t[1], r[2] * CHUNK_SIZE + t[2]>> : r \in Regions, t \in RasterTiles}

InitWorld ==
    /\ noise \in SubsetsUpTo(WorldTiles, MaxSpecial)
    /\ ACTIVE_BIOMES = DEFAULT_ALABAMA_BIOMES
    /\ LAST_HIT = <<>>
    /\ search = null
    /\ viewMode = "biomes"
    /\ chunks = <<>>
    /\ chunkMode = <<>>
    /\ generations = [r \in Regions |-> 0]
    /\ modeLog = <<"biomes">>
    /\ lastOp = null
    /\ loading = "idle"
    /\ biomeOp = null
    /\ sampler = null
    /\ noiseIn = null
    /\ noiseOp = null
    /\ sampled = <<>>
    /\ phase = null
    /\ boot = NotStarted
    /\ kb = createKeyboard
    /\ debugConsole = DebugConsole
    /\ registry = createCommandRegistry

NextWorld ==
    \/ \E r \in Regions : getChunkCanvas(r[1], r[2])
    \/ \E mode \in ModeInputs : setViewMode(mode)

SpecWorld == InitWorld /\ [][NextWorld]_vars

----------------------------------------------------------------------------
(* The state machine of the classifier: from the built-in list, any         *)
(* sequence of tryLoadBiomesFromCSV attempts, each run from await to await, *)
(* and of classifications, which run to completion between them.            *)

\* lines a biomes.csv of the model is made of: a blank line, a comment, the
\* header, a line of 5 fields, the rows of prototypes 1 and 7, a row of id 1
\* with the axes of prototype 7, and a row of 11 fields with a non-numeric
\* id, axis values outside [0,1] and a non-numeric axis value
BlankLine == <<" ">>
CommentLine == <<"# note">>
HeaderLine ==
    <<"ID", "label", "real_world_anchor", "temp", "moist", "elev", "rough",
      "sal", "fert", "fire">>
ShortLine == <<"3", "Karst", "plateau", "0.5", "0.55">>
RowOne == <<"1", "Highlands", "uplands", "0.45", "0.55", "0.85", "0.75", "0", "0.5", "0.2">>
RowSeven == <<"7", "Bogs", "seepage", "0.8", "0.95", "0.2", "0.15", "0", "0.1", "0.6">>
RowOneAgain == <<"1", "Copy", "seepage", "0.8", "0.95", "0.2", "0.15", "0", "0.1", "0.6">>
RowWild == <<"x", "Wild", "", "1.5", "-0.2", "abc", "0.5", "0.5", "", "0.5", "more">>

LineSamples ==
    {BlankLine, CommentLine, HeaderLine, ShortLine, RowOne, RowSeven, RowOneAgain, RowWild}

\* the texts a fetch of biomes.csv can give: up to MaxLines lines
RECURSIVE TextsUpTo(_)
TextsUpTo(n) ==
    IF n = 0 THEN {<<>>}
    ELSE LET T == TextsUpTo(n - 1)
         IN  T \cup {Append(t, l) : t \in {u \in T : Len(u) = n - 1}, l \in LineSamples}

Texts == TextsUpTo(MaxLines)

\* what a finished load attempt or a classification leaves in biomeOp:
\* before is the ACTIVE_BIOMES the event began with
BiomeRecord(op, outcome, text, axes, result) ==
    [op |-> op, outcome |-> outcome, text |-> text, axes |-> axes,
     result |-> result, before |-> ACTIVE_BIOMES, during |-> loading]

\* tryLoadBiomesFromCSV is called: it runs up to `await fetch(url, ...)`
LoadBegin ==
    /\ loading = "idle"
    /\ loading' = "fetch"
    /\ UNCHANGED <<noise, ACTIVE_BIOMES, biomeOp>>
    /\ UNCHANGED searchVars
    /\ UNCHANGED worldVars
    /\ UNCHANGED noiseVars
    /\ UNCHANGED phase
    /\ UNCHANGED shellVars

\* fetch rejects: the catch block returns ACTIVE_BIOMES
FetchThrows ==
    /\ loading = "fetch"
    /\ loading' = "idle"
    /\ biomeOp' = BiomeRecord("load", "fetch threw", <<>>, null, ACTIVE_BIOMES)
    /\ UNCHANGED <<noise, ACTIVE_BIOMES>>
    /\ UNCHANGED searchVars
    /\ UNCHANGED worldVars
    /\ UNCHANGED noiseVars
    /\ UNCHANGED phase
    /\ UNCHANGED shellVars

\* fetch resolves with a response that is not ok: return ACTIVE_BIOMES
FetchNotOk ==
    /\ loading = "fetch"
    /\ loading' = "idle"
    /\ biomeOp' = BiomeRecord("load", "not ok", <<>>, null, ACTIVE_BIOMES)
    /\ UNCHANGED <<noise, ACTIVE_BIOMES>>
    /\ UNCHANGED searchVars
    /\ UNCHANGED worldVars
    /\ UNCHANGED noiseVars
    /\ UNCHANGED phase
    /\ UNCHANGED shellVars

\* fetch resolves with an ok response: run up to `await res.text()`
FetchOk ==
    /\ loading = "fetch"
    /\ loading' = "text"
    /\ UNCHANGED <<noise, ACTIVE_BIOMES, biomeOp>>
    /\ UNCHANGED searchVars
    /\ UNCHANGED worldVars
    /\ UNCHANGED noiseVars
    /\ UNCHANGED phase
    /\ UNCHANGED shellVars

\* res.text() rejects: the catch block returns ACTIVE_BIOMES
TextThrows ==
    /\ loading = "text"
    /\ loading' = "idle"
    /\ biomeOp' = BiomeRecord("load", "text threw", <<>>, null, ACTIVE_BIOMES)
    /\ UNCHANGED <<noise, ACTIVE_BIOMES>>
    /\ UNCHANGED searchVars
    /\ UNCHANGED worldVars
    /\ UNCHANGED noiseVars
    /\ UNCHANGED phase
    /\ UNCHANGED shellVars

\* res.text() resolves with text: parse, swap if anything was parsed, and
\* return ACTIVE_BIOMES
TextArrives(text) ==
    /\ loading = "text"
    /\ loading' = "idle"
    /\ ACTIVE_BIOMES' = Swap(parseBiomesCSV(text))
    /\ biomeOp' = BiomeRecord("load", "parsed", text, null, ACTIVE_BIOMES')
    /\ UNCHANGED noise
    /\ UNCHANGED searchVars
    /\ UNCHANGED worldVars
    /\ UNCHANGED noiseVars
    /\ UNCHANGED phase
    /\ UNCHANGED shellVars

\* a call classifyAxes(axes) with the default list and weights, made while
\* a load is in flight or while none is
Classify(axes) ==
    /\ biomeOp' = BiomeRecord("classify", "", <<>>, axes,
                              classifyAxes(axes, ACTIVE_BIOMES, CLASSIFY_WEIGHTS))
    /\ UNCHANGED <<noise, ACTIVE_BIOMES, loading>>
    /\ UNCHANGED searchVars
    /\ UNCHANGED worldVars
    /\ UNCHANGED noiseVars
    /\ UNCHANGED phase
    /\ UNCHANGED shellVars

InitBiomes ==
    /\ noise = {}
    /\ ACTIVE_BIOMES = DEFAULT_ALABAMA_BIOMES
    /\ LAST_HIT = <<>>
    /\ search = null
    /\ viewMode = "biomes"
    /\ chunks = <<>>
    /\ chunkMode = <<>>
    /\ generations = [r \in Regions |-> 0]
    /\ modeLog = <<"biomes">>
    /\ lastOp = null
    /\ loading = "idle"
    /\ biomeOp = null
    /\ sampler = null
    /\ noiseIn = null
    /\ noiseOp = null
    /\ sampled = <<>>
    /\ phase = null
    /\ boot = NotStarted
    /\ kb = createKeyboard
    /\ debugConsole = DebugConsole
    /\ registry = createCommandRegistry

NextBiomes ==
    \/ LoadBegin
    \/ FetchThrows
    \/ FetchNotOk
    \/ FetchOk
    \/ TextThrows
    \/ \E text \in Texts : TextArrives(text)
    \/ \E axes \in AxesSamples : Classify(axes)

SpecBiomes == InitBiomes /\ [][NextBiomes]_vars

----------------------------------------------------------------------------
(* The state machine of a reload: a load attempt is in flight from its     *)
(* call to its return, and between its awaits the console and the renderer *)
(* run their synchronous readers of ACTIVE_BIOMES to completion: a         *)
(* classification, World.getChunkCanvas and the findbiome search.          *)

\* the tables a fetch can give during a reload: two rows each, of which at
\* least one has seven numbers for its axes
ReloadTexts == {<<RowSeven, RowOne>>, <<RowWild, RowOne>>}

\* the field of a reload: one special tile, in region (0,0) and next to the
\* start tile of the search
ReloadNoise == {<<1, 0>>}

InitReload ==
    /\ noise = ReloadNoise
    /\ ACTIVE_BIOMES = DEFAULT_ALABAMA_BIOMES
    /\ LAST_HIT = <<>>
    /\ search = null
    /\ viewMode = "biomes"
    /\ chunks = <<>>
    /\ chunkMode = <<>>
    /\ generations = [r \in Regions |-> 0]
    /\ modeLog = <<"biomes">>
    /\ lastOp = null
    /\ loading = "idle"
    /\ biomeOp = null
    /\ sampler = null
    /\ noiseIn = null
    /\ noiseOp = null
    /\ sampled = <<>>
    /\ phase = null
    /\ boot = NotStarted
    /\ kb = createKeyboard
    /\ debugConsole = DebugConsole
    /\ registry = createCommandRegistry

NextReload ==
    \/ LoadBegin
    \/ FetchThrows
    \/ FetchNotOk
    \/ FetchOk
    \/ TextThrows
    \/ \E text \in ReloadTexts : TextArrives(text)
    \/ \E axes \in AxesSamples : Classify(axes)
    \/ \E r \in Regions : getChunkCanvas(r[1], r[2])
    \/ FindNearestBiome(0, 0, 7, 1)

SpecReload == InitReload /\ [][NextReload]_vars

----------------------------------------------------------------------------
(* The state machine of the noise functions: one call of hash2i and hash2f, *)
(* of fbm2 or of sampleAxes, on arguments drawn when the behaviour begins.  *)

\* the most octaves fbm2 is called with
MaxOctaves == 8

\* integer arguments of hash2i: small ones of both signs, -70000, 2^31,
\* 2^32 + 1, -(2^40 + 3) and 2^48 - 1
HashIntegers ==
    {IntegerOf(0), IntegerOf(1), IntegerOf(0 - 1), IntegerOf(0 - 70000),
     [neg |-> FALSE, mag |-> <<0, 32768>>],
     [neg |-> FALSE, mag |-> <<1, 0, 1>>],
     [neg |-> TRUE, mag |-> <<3, 0, 256>>],
     [neg |-> FALSE, mag |-> <<65535, 65535, 65535>>]}

\* seeds of hash2i
HashSeeds ==
    {IntegerOf(0), IntegerOf(12345), IntegerOf(0 - 5),
     [neg |-> FALSE, mag |-> <<65535, 65535>>],
     [neg |-> FALSE, mag |-> <<1, 0, 1>>]}

\* the values n of the octaves of fbm2: sequences of the least and the
\* greatest value of [0,1) in thousandths
RECURSIVE SamplesUpTo(_)
SamplesUpTo(k) ==
    IF k = 0 THEN {<<>>}
    ELSE SamplesUpTo(k - 1)
             \cup {Append(q, v) : q \in {r \in SamplesUpTo(k - 1) : Len(r) = k - 1},
                                  v \in {0, 999}}

\* gains in (0,1)
Gains == {100, 500, 550, 900}

\* coordinates fbm2 is called with (tile coordinates with their offsets)
FbmCoords == {0, 5000, 157310, 0 - 89970}

\* NoiseParameters of one axis
AxisParamSets ==
    {[octaves |-> o, frequency |-> f, lacunarity |-> 2000, gain |-> g] :
        o \in 1..MaxOctaves, f \in {250, 16}, g \in {500, 900}}
    \cup {[octaves |-> 3], [gain |-> 600, lacunarity |-> 2500]}

\* the params argument of makeNoise: left out, for one axis, for all axes
ParamSets ==
    {absent,
     [elevation |-> [octaves |-> 2, frequency |-> 250, lacunarity |-> 2000, gain |-> 500]],
     [elevation   |-> [octaves |-> 1, frequency |-> 500, lacunarity |-> 3000, gain |-> 900],
      moisture    |-> [octaves |-> 1, frequency |-> 500, lacunarity |-> 3000, gain |-> 900],
      temperature |-> [octaves |-> 2, frequency |-> 125, lacunarity |-> 2000, gain |-> 100],
      roughness   |-> [octaves |-> 1, frequency |-> 1000, lacunarity |-> 2000, gain |-> 500],
      salinity    |-> [octaves |-> 1, frequency |-> 8, lacunarity |-> 2000, gain |-> 500],
      fertility   |-> [octaves |-> 2, frequency |-> 62, lacunarity |-> 2000, gain |-> 500],
      fire        |-> [octaves |-> 1, frequency |-> 31, lacunarity |-> 2000, gain |-> 500]]}

\* the gradients argument of makeNoise: left out, all five fields, the two
\* scales only, one factor only
GradientSets ==
    {absent,
     [TEMP_LAT_GRAD_TILES |-> 64, SAL_LAT_GRAD_TILES |-> 4,
      TEMP_ELEV_COOLING |-> 1000, SAL_ELEV_REDUCTION |-> 2000, ROUGH_SLOPE_SCALE |-> 50000],
     [TEMP_LAT_GRAD_TILES |-> 1024, SAL_LAT_GRAD_TILES |-> 1024],
     [TEMP_ELEV_COOLING |-> 300]}

\* the pairs of seeds makeNoise is called with
SeedPairs ==
    {<<IntegerOf(1), IntegerOf(2)>>,
     <<[neg |-> FALSE, mag |-> <<1, 0, 1>>], IntegerOf(0 - 5)>>}

\* the tiles sampleAxes is called on
SampleTiles == {<<0, 0>>, <<5, 0 - 3>>, <<0 - 64, 200>>, <<3, 9000>>}

\* main.js `const noise = makeNoise(elevSeed, moistSeed)`, with any arguments
Sampler(elevSeed, moistSeed, params, gradients) ==
    [elevSeed |-> elevSeed, moistSeed |-> moistSeed,
     params |-> params, gradients |-> gradients,
     closure |-> makeNoise(elevSeed, moistSeed, params, gradients)]

\* the state every other part of the program is in meanwhile
RestOfProgram ==
    /\ noise = {}
    /\ ACTIVE_BIOMES = DEFAULT_ALABAMA_BIOMES
    /\ LAST_HIT = <<>>
    /\ search = null
    /\ viewMode = "biomes"
    /\ chunks = <<>>
    /\ chunkMode = <<>>
    /\ generations = [r \in Regions |-> 0]
    /\ modeLog = <<"biomes">>
    /\ lastOp = null
    /\ loading = "idle"
    /\ biomeOp = null

InitNoise ==
    /\ RestOfProgram
    /\ noiseOp = null
    /\ sampled = <<>>
    /\ phase = null
    /\ boot = NotStarted
    /\ kb = createKeyboard
    /\ debugConsole = DebugConsole
    /\ registry = createCommandRegistry
    /\ \/ /\ sampler = null
          /\ \E ix \in HashIntegers, iy \in HashIntegers, seed \in HashSeeds :
                 noiseIn = [op |-> "hash", args |-> <<ix, iy, seed>>]
       \/ /\ sampler = null
          /\ \E samples \in SamplesUpTo(MaxOctaves) \ {<<>>}, gain \in Gains :
                 noiseIn = [op |-> "average", args |-> <<samples, gain>>]
       \/ /\ sampler = null
          /\ \E x \in FbmCoords, y \in FbmCoords, params \in AxisParamSets :
                 noiseIn = [op |-> "fbm2", args |-> <<x, y, IntegerOf(7), params>>]
       \/ /\ \E seeds \in SeedPairs, params \in ParamSets, gradients \in GradientSets :
                 sampler = Sampler(seeds[1], seeds[2], params, gradients)
          /\ \E tile \in SampleTiles :
                 noiseIn = [op |-> "sample", args |-> tile]

\* what a call leaves in noiseOp
NoiseRecord(result) == [op |-> noiseIn.op, args |-> noiseIn.args, result |-> result]

\* hash2i(ix, iy, seed) and hash2f(ix, iy, seed)
Hash ==
    /\ noiseOp = null
    /\ noiseIn.op = "hash"
    /\ noiseOp' = NoiseRecord([h |-> hash2i(noiseIn.args[1], noiseIn.args[2], noiseIn.args[3]),
                               f |-> hash2f(noiseIn.args[1], noiseIn.args[2], noiseIn.args[3])])
    /\ UNCHANGED <<noise, ACTIVE_BIOMES, sampler, noiseIn, sampled, phase>>
    /\ UNCHANGED shellVars
    /\ UNCHANGED searchVars
    /\ UNCHANGED worldVars
    /\ UNCHANGED biomeVars

\* the loop of fbm2 over given values of its octaves
Average ==
    /\ noiseOp = null
    /\ noiseIn.op = "average"
    /\ noiseOp' = NoiseRecord([samples |-> noiseIn.args[1],
                               value |-> FbmLoop(noiseIn.args[1], 1, 100000, 0, 0,
                                                 noiseIn.args[2])])
    /\ UNCHANGED <<noise, ACTIVE_BIOMES, sampler, noiseIn, sampled, phase>>
    /\ UNCHANGED shellVars
    /\ UNCHANGED searchVars
    /\ UNCHANGED worldVars
    /\ UNCHANGED biomeVars

\* fbm2(x, y, seed, params)
Fbm2 ==
    /\ noiseOp = null
    /\ noiseIn.op = "fbm2"
    /\ noiseOp' = NoiseRecord(
           [samples |-> OctaveSamples(0, OrDefault(Field(noiseIn.args[4], "octaves"), 4),
                                      Mul(noiseIn.args[1],
                                          OrDefault(Field(noiseIn.args[4], "frequency"), 10)),
                                      Mul(noiseIn.args[2],
                                          OrDefault(Field(noiseIn.args[4], "frequency"), 10)),
                                      noiseIn.args[3],
                                      OrDefault(Field(noiseIn.args[4], "lacunarity"), 2000)),
            value |-> fbm2(noiseIn.args[1], noiseIn.args[2], noiseIn.args[3],
                           AxisParams([axis |-> noiseIn.args[4]], "axis"))])
    /\ UNCHANGED <<noise, ACTIVE_BIOMES, sampler, noiseIn, sampled, phase>>
    /\ UNCHANGED shellVars
    /\ UNCHANGED searchVars
    /\ UNCHANGED worldVars
    /\ UNCHANGED biomeVars

\* noise.sampleAxes(tx, ty)
Sample ==
    /\ noiseOp = null
    /\ noiseIn.op = "sample"
    /\ noiseOp' = NoiseRecord(SampleAxes(sampler.closure, noiseIn.args[1], noiseIn.args[2]))
    /\ UNCHANGED <<noise, ACTIVE_BIOMES, sampler, noiseIn, sampled, phase>>
    /\ UNCHANGED shellVars
    /\ UNCHANGED searchVars
    /\ UNCHANGED worldVars
    /\ UNCHANGED biomeVars

NextNoise ==
    \/ Hash
    \/ Average
    \/ Fbm2
    \/ Sample

SpecNoise == InitNoise /\ [][NextNoise]_vars

----------------------------------------------------------------------------
(* The sampler among the rest of the program: tiles are sampled again and  *)
(* again while modes change, axes are classified, the prototypes are       *)
(* replaced, searches run and the process restarts with the same seeds.    *)

\* the samplers of this state machine: the one of main.js and one with its
\* own parameters and gradients
PuritySamplers ==
    {Sampler(IntegerOf(1), IntegerOf(2), absent, absent),
     Sampler(IntegerOf(0 - 5), [neg |-> FALSE, mag |-> <<1, 0, 1>>],
             [elevation |-> [octaves |-> 2, frequency |-> 250, lacunarity |-> 2000, gain |-> 500]],
             [TEMP_LAT_GRAD_TILES |-> 64, SAL_LAT_GRAD_TILES |-> 4,
              TEMP_ELEV_COOLING |-> 1000, SAL_ELEV_REDUCTION |-> 2000,
              ROUGH_SLOPE_SCALE |-> 50000])}

\* the tiles sampled
PurityTiles == {<<0, 0>>, <<5, 0 - 3>>}

\* the text the csv is replaced with
PurityText == <<RowSeven, RowOne>>

\* sampleAxes of the samplers above on the tiles above, computed once
PurityTable ==
    {<<s.closure, t, SampleAxes(s.closure, t[1], t[2])>> :
        s \in PuritySamplers, t \in PurityTiles}

\* sampleAxes(tx, ty) of the sampler n, looked up where it was computed before
SampleAxesOnce(n, tx, ty) ==
    IF \E e \in PurityTable : e[1] = n /\ e[2] = <<tx, ty>>
    THEN (CHOOSE e \in PurityTable : e[1] = n /\ e[2] = <<tx, ty>>)[3]
    ELSE SampleAxes(n, tx, ty)

InitPurity ==
    /\ RestOfProgram
    /\ sampler \in PuritySamplers
    /\ noiseIn = null
    /\ noiseOp = null
    /\ sampled = <<>>
    /\ phase = null
    /\ boot = NotStarted
    /\ kb = createKeyboard
    /\ debugConsole = DebugConsole
    /\ registry = createCommandRegistry

\* the entry of a tile in the log: the axes of its first sample and whether
\* the process restarted since
LogEntry(tile, axes) ==
    IF tile \in DOMAIN sampled THEN sampled[tile]
    ELSE [axes |-> axes, restarted |-> FALSE]

\* noise.sampleAxes(tx, ty) on the sampler of the process
SampleTile(tx, ty) ==
    /\ noiseOp' = [op |-> "sample", args |-> <<tx, ty>>,
                   again |-> <<tx, ty>> \in DOMAIN sampled,
                   result |-> SampleAxesOnce(sampler.closure, tx, ty)]
    /\ sampled' = [t \in DOMAIN sampled \cup {<<tx, ty>>} |->
                      IF t = <<tx, ty>>
                      THEN LogEntry(t, noiseOp'.result)
                      ELSE sampled[t]]
    /\ UNCHANGED <<noise, ACTIVE_BIOMES, sampler, noiseIn, phase>>
    /\ UNCHANGED shellVars
    /\ UNCHANGED searchVars
    /\ UNCHANGED worldVars
    /\ UNCHANGED biomeVars

\* the process ends and main.js runs again with the same seeds and parameters
Restart ==
    /\ noise' = {}
    /\ ACTIVE_BIOMES' = DEFAULT_ALABAMA_BIOMES
    /\ LAST_HIT' = <<>>
    /\ search' = null
    /\ viewMode' = "biomes"
    /\ chunks' = <<>>
    /\ chunkMode' = <<>>
    /\ generations' = [r \in Regions |-> 0]
    /\ modeLog' = <<"biomes">>
    /\ lastOp' = null
    /\ loading' = "idle"
    /\ biomeOp' = null
    /\ sampler' = Sampler(sampler.elevSeed, sampler.moistSeed,
                          sampler.params, sampler.gradients)
    /\ noiseOp' = [op |-> "restart"]
    /\ sampled' = [t \in DOMAIN sampled |-> [sampled[t] EXCEPT !.restarted = TRUE]]
    /\ UNCHANGED <<noiseIn, phase>>
    /\ UNCHANGED shellVars

NextPurity ==
    \/ \E tile \in PurityTiles : SampleTile(tile[1], tile[2])
    \/ Restart
    \/ setViewMode("temp")
    \/ Classify(BackgroundAxes)
    \/ LoadBegin
    \/ FetchOk
    \/ TextArrives(PurityText)
    \/ FindNearestBiome(0, 0, 7, 1)

SpecPurity == InitPurity /\ [][NextPurity]_vars

----------------------------------------------------------------------------
(* The state machine of the parts of findbiome.js: forEachRing, the ring    *)
(* loop, exactNearestWithinBound on an empty visited set, and the coarse    *)
(* loop of findNearestBiome, each called on its own on a field drawn when   *)
(* the behaviour begins.                                                    *)

\* the largest ring, bound and max radius of a call
MaxReach == 4

\* the largest stride forEachRing is called with
MaxStride == 3

\* the tiles that can sample SpecialAxes in this state machine
PhaseTiles ==
    {<<0, 0>>, <<1, 1>>, <<2, 0>>, <<3, 3>>, <<4, 0>>, <<0, 0 - 4>>, <<0 - 2, 2>>, <<5, 4>>}

\* the hints LAST_HIT.get(targetId) can give
PhaseHints ==
    {null, [tx |-> 0, ty |-> 0], [tx |-> 2, ty |-> 0], [tx |-> 3, ty |-> 3],
     [tx |-> 0, ty |-> 0 - 4]}

InitPhases ==
    /\ noise \in SubsetsUpTo(PhaseTiles, MaxSpecial)
    /\ ACTIVE_BIOMES = DEFAULT_ALABAMA_BIOMES
    /\ LAST_HIT = <<>>
    /\ search = null
    /\ viewMode = "biomes"
    /\ chunks = <<>>
    /\ chunkMode = <<>>
    /\ generations = [r \in Regions |-> 0]
    /\ modeLog = <<"biomes">>
    /\ lastOp = null
    /\ loading = "idle"
    /\ biomeOp = null
    /\ sampler = null
    /\ noiseIn = null
    /\ noiseOp = null
    /\ sampled = <<>>
    /\ phase = null
    /\ boot = NotStarted
    /\ kb = createKeyboard
    /\ debugConsole = DebugConsole
    /\ registry = createCommandRegistry

\* what the other parts of the program are left as by a call
PhaseFrame ==
    /\ UNCHANGED <<noise, ACTIVE_BIOMES>>
    /\ UNCHANGED searchVars
    /\ UNCHANGED worldVars
    /\ UNCHANGED biomeVars
    /\ UNCHANGED noiseVars
    /\ UNCHANGED shellVars

\* forEachRing(tx0, ty0, r, step, cb) with a callback that notes its tile
Ring(tx0, ty0, r, step) ==
    /\ phase = null
    /\ phase' = [op |-> "ring", tx0 |-> tx0, ty0 |-> ty0, r |-> r, step |-> step,
                 calls |-> forEachRing(tx0, ty0, r, step)]
    /\ PhaseFrame

\* for (let r = 0; r <= ubCheb; r++) forEachRing(tx0, ty0, r, 1, cb): the
\* tiles cb is called on from ring r on, no ring left out
RECURSIVE RingsFrom(_, _, _, _)
RingsFrom(tx0, ty0, r, ubCheb) ==
    IF r > ubCheb THEN <<>>
    ELSE forEachRing(tx0, ty0, r, 1) \o RingsFrom(tx0, ty0, r + 1, ubCheb)

\* the ring loop of the exact phase with a callback that notes its tile
Rings(tx0, ty0, ubCheb) ==
    /\ phase = null
    /\ phase' = [op |-> "rings", tx0 |-> tx0, ty0 |-> ty0, ub |-> ubCheb,
                 calls |-> RingsFrom(tx0, ty0, 0, ubCheb)]
    /\ PhaseFrame

\* exactNearestWithinBound(ctx, tx0, ty0, targetId, ubCheb, new Set(), new Map())
ExactPhase(tx0, ty0, targetId, ubCheb) ==
    /\ phase = null
    /\ phase' = [op |-> "exact", tx0 |-> tx0, ty0 |-> ty0, targetId |-> targetId,
                 ub |-> ubCheb,
                 out |-> exactNearestWithinBound(
                             createCommandContext,
                             [visited |-> {}, cache |-> <<>>, calls |-> <<>>],
                             tx0, ty0, targetId, ubCheb)]
    /\ PhaseFrame

\* findNearestBiome from its first line to the end of the loop over the
\* strides, hint being what LAST_HIT.get(targetId) gave
CoarsePhase(startTx, startTy, targetId, maxTiles, hint) ==
    /\ phase = null
    /\ phase' = [op |-> "coarse", tx0 |-> startTx, ty0 |-> startTy,
                 targetId |-> targetId, maxTiles |-> maxTiles, hint |-> hint,
                 co |-> CoarseLoop(createCommandContext,
                                   [visited |-> {}, cache |-> <<>>, calls |-> <<>>],
                                   CoarseSteps, 1,
                                   HintBound(hint, startTx, startTy, Max(1, maxTiles)),
                                   <<>>, startTx, startTy, targetId)]
    /\ PhaseFrame

NextPhases ==
    \/ \E c \in Starts, r \in 0..MaxReach, step \in 1..MaxStride :
           Ring(c[1], c[2], r, step)
    \/ \E c \in Starts, ubCheb \in 0..MaxReach : Rings(c[1], c[2], ubCheb)
    \/ \E c \in Starts, targetId \in TargetIds, ubCheb \in 0..MaxReach :
           ExactPhase(c[1], c[2], targetId, ubCheb)
    \/ \E c \in Starts, targetId \in TargetIds, maxTiles \in 1..MaxReach,
          hint \in PhaseHints :
           CoarsePhase(c[1], c[2], targetId, maxTiles, hint)

SpecPhases == InitPhases /\ [][NextPhases]_vars

----------------------------------------------------------------------------
(* The state machine of searches among replacements of the prototypes:     *)
(* biomes.csv is fetched and parsed again while findbiome commands run,     *)
(* LAST_HIT living as long as the module.                                   *)

\* a row that gives id 7 the axes of the uplands
RowSevenUpland == <<"7", "Moved", "uplands", "0.45", "0.55", "0.85", "0.75", "0", "0.5", "0.2">>

\* the texts fetched: ids 1 and 7 with their axes exchanged, and as built in
HintTexts == {<<RowOneAgain, RowSevenUpland>>, <<RowOne, RowSeven>>}

\* the field: SpecialAxes on one tile, three tiles east of the first start
HintNoise == {<<3, 0>>}

InitHints ==
    /\ noise = HintNoise
    /\ ACTIVE_BIOMES = DEFAULT_ALABAMA_BIOMES
    /\ LAST_HIT = <<>>
    /\ search = null
    /\ viewMode = "biomes"
    /\ chunks = <<>>
    /\ chunkMode = <<>>
    /\ generations = [r \in Regions |-> 0]
    /\ modeLog = <<"biomes">>
    /\ lastOp = null
    /\ loading = "idle"
    /\ biomeOp = null
    /\ sampler = null
    /\ noiseIn = null
    /\ noiseOp = null
    /\ sampled = <<>>
    /\ phase = null
    /\ boot = NotStarted
    /\ kb = createKeyboard
    /\ debugConsole = DebugConsole
    /\ registry = createCommandRegistry

NextHints ==
    \/ LoadBegin
    \/ FetchOk
    \/ \E text \in HintTexts : TextArrives(text)
    \/ \E start \in Starts, targetId \in TargetIds, maxTiles \in 1..MaxRadius :
           FindNearestBiome(start[1], start[2], targetId, maxTiles)

SpecHints == InitHints /\ [][NextHints]_vars

----------------------------------------------------------------------------
(* The state machine of the World among replacements of the prototypes:    *)
(* regions are fetched and the view mode is set while biomes.csv is        *)
(* fetched and parsed again.                                                *)

\* the text fetched: ids 1 and 7 with their axes exchanged
RasterText == <<RowOneAgain, RowSevenUpland>>

InitRaster ==
    /\ noise = {<<1, 0>>}
    /\ ACTIVE_BIOMES = DEFAULT_ALABAMA_BIOMES
    /\ LAST_HIT = <<>>
    /\ search = null
    /\ viewMode = "biomes"
    /\ chunks = <<>>
    /\ chunkMode = <<>>
    /\ generations = [r \in Regions |-> 0]
    /\ modeLog = <<"biomes">>
    /\ lastOp = null
    /\ loading = "idle"
    /\ biomeOp = null
    /\ sampler = null
    /\ noiseIn = null
    /\ noiseOp = null
    /\ sampled = <<>>
    /\ phase = null
    /\ boot = NotStarted
    /\ kb = createKeyboard
    /\ debugConsole = DebugConsole
    /\ registry = createCommandRegistry

NextRaster ==
    \/ \E r \in Regions : getChunkCanvas(r[1], r[2])
    \/ \E mode \in {"biomes", "temp"} : setViewMode(mode)
    \/ LoadBegin
    \/ FetchOk
    \/ TextArrives(RasterText)

SpecRaster == InitRaster /\ [][NextRaster]_vars

----------------------------------------------------------------------------
(* The state machine of the bootstrap of main.js: start() is called once,   *)
(* its load attempt goes through its awaits, and meanwhile and afterwards   *)
(* the page has its events: resizes, keys, the console and its view command *)
(* and, once requested, animation frames.                                   *)

InitBoot ==
    /\ noise = {<<1, 0>>}
    /\ ACTIVE_BIOMES = DEFAULT_ALABAMA_BIOMES
    /\ LAST_HIT = <<>>
    /\ search = null
    /\ viewMode = "biomes"
    /\ chunks = <<>>
    /\ chunkMode = <<>>
    /\ generations = [r \in Regions |-> 0]
    /\ modeLog = <<"biomes">>
    /\ lastOp = null
    /\ loading = "idle"
    /\ biomeOp = null
    /\ sampler = null
    /\ noiseIn = null
    /\ noiseOp = null
    /\ sampled = <<>>
    /\ phase = null
    /\ boot = NotStarted
    /\ kb = createKeyboard
    /\ debugConsole = DebugConsole
    /\ registry = createCommandRegistry

NextBoot ==
    \/ Start
    \/ FetchThrows
    \/ FetchNotOk
    \/ FetchOk
    \/ TextThrows
    \/ TextArrives(RasterText)
    \/ Resume
    \/ \E r \in Regions : Frame(r[1], r[2])
    \/ \E width \in Widths : Resize(width)
    \/ KeyDown("KeyW", FALSE)
    \/ KeyUp("KeyW", FALSE)
    \/ Backquote(FALSE)
    \/ setViewMode("temp")

SpecBoot == InitBoot /\ [][NextBoot]_vars

----------------------------------------------------------------------------
(* The state machine of a table with a header row: load attempts whose      *)
(* fetch gives a header, as the documentation of the table or as the        *)
(* parser spells it, and up to two lines after it.                          *)

\* the header row the table is documented with
AnchorHeaderLine ==
    <<"id", "label", "anchor", "temp", "moist", "elev", "rough", "sal", "fert", "fire">>

\* the lines after the header
HeaderTails ==
    {<<>>} \cup {<<l>> : l \in {RowOne, RowSeven, CommentLine}}
    \cup {<<l, m>> : l \in {RowOne, RowSeven, CommentLine}, m \in {RowOne, RowSeven, CommentLine}}

HeaderTexts == {<<h>> \o t : h \in {AnchorHeaderLine, HeaderLine}, t \in HeaderTails}

InitHeader == InitBiomes

NextHeader ==
    \/ LoadBegin
    \/ FetchOk
    \/ \E text \in HeaderTexts : TextArrives(text)

SpecHeader == InitHeader /\ [][NextHeader]_vars

----------------------------------------------------------------------------
(* The state machine of the seeds: the page is loaded, and loaded again,    *)
(* with base seeds of its URL, and main.js wires its sampler from each.     *)

\* the values baseSeed takes: 32-bit words as makeSeed and randomSeed give
BaseSeeds ==
    {IntegerOf(0), IntegerOf(1), IntegerOf(2), IntegerOf(3), IntegerOf(12345),
     IntegerOf(65536),
     [neg |-> FALSE, mag |-> <<0, 32768>>],
     [neg |-> FALSE, mag |-> <<1, 32768>>],
     [neg |-> FALSE, mag |-> <<42405, 42405>>],
     [neg |-> FALSE, mag |-> <<62322, 15470>>],
     [neg |-> FALSE, mag |-> <<65534, 65535>>],
     [neg |-> FALSE, mag |-> <<65535, 65535>>]}

\* toUint32(baseSeed ^ 0xA5A5A5A5)
ElevSeedOf(baseSeed) ==
    NumberOfWord(ShiftRight(Xor(WordOfNumber(baseSeed), WordOf(42405, 42405)), 0))

\* toUint32(baseSeed ^ 0x3C6EF372)
MoistSeedOf(baseSeed) ==
    NumberOfWord(ShiftRight(Xor(WordOfNumber(baseSeed), WordOf(15470, 62322)), 0))

\* the seeds of the five derived axes in the closure of a sampler
AxisSeeds(closure) ==
    [tempSeed |-> closure.tempSeed, roughSeed |-> closure.roughSeed,
     salSeed |-> closure.salSeed, fertSeed |-> closure.fertSeed,
     fireSeed |-> closure.fireSeed]

InitSeeds ==
    /\ RestOfProgram
    /\ sampler = null
    /\ noiseIn = null
    /\ noiseOp = null
    /\ sampled = <<>>
    /\ phase = null
    /\ boot = NotStarted
    /\ kb = createKeyboard
    /\ debugConsole = DebugConsole
    /\ registry = createCommandRegistry

\* main.js runs with baseSeed: noise = makeNoise(elevSeed, moistSeed).  The
\* base seed and the axis seeds of the run before are kept in noiseOp
LoadPage(baseSeed) ==
    /\ noiseIn' = [op |-> "seed", baseSeed |-> baseSeed]
    /\ sampler' = Sampler(ElevSeedOf(baseSeed), MoistSeedOf(baseSeed), absent, absent)
    /\ noiseOp' = IF sampler = null THEN null
                  ELSE [op |-> "reload", baseSeed |-> noiseIn.baseSeed,
                        seeds |-> AxisSeeds(sampler.closure)]
    /\ UNCHANGED <<noise, ACTIVE_BIOMES, sampled, phase>>
    /\ UNCHANGED shellVars
    /\ UNCHANGED searchVars
    /\ UNCHANGED worldVars
    /\ UNCHANGED biomeVars

NextSeeds == \E baseSeed \in BaseSeeds : LoadPage(baseSeed)

SpecSeeds == InitSeeds /\ [][NextSeeds]_vars

----------------------------------------------------------------------------
(* The state machine of the command registry: main.js has registered help   *)
(* and view, and then lines are executed, and tile is registered, in any    *)
(* order.                                                                   *)

\* the lines executed: '', a blank one, commands by name, by alias and in
\* upper case, with and without arguments, and names never registered
Lines ==
    {<<"">>, <<" ">>, <<"help">>, <<" ", "HELP", " ", "view", " ">>, <<"?">>,
     <<"layer", " ", "temp">>, <<"where">>, <<"nope", " ", "help">>}

InitRegistry ==
    /\ noise = {}
    /\ ACTIVE_BIOMES = DEFAULT_ALABAMA_BIOMES
    /\ LAST_HIT = <<>>
    /\ search = null
    /\ viewMode = "biomes"
    /\ chunks = <<>>
    /\ chunkMode = <<>>
    /\ generations = [r \in Regions |-> 0]
    /\ modeLog = <<"biomes">>
    /\ lastOp = null
    /\ loading = "idle"
    /\ biomeOp = null
    /\ sampler = null
    /\ noiseIn = null
    /\ noiseOp = null
    /\ sampled = <<>>
    /\ phase = null
    /\ boot = NotStarted
    /\ kb = createKeyboard
    /\ debugConsole = DebugConsole
    /\ registry = register(register(createCommandRegistry, helpCmd), viewCmd)

NextRegistry ==
    \/ \E line \in Lines, outcome \in Outcomes : Execute(line, outcome)
    \/ Register(tileCmd)

SpecRegistry == InitRegistry /\ [][NextRegistry]_vars

----------------------------------------------------------------------------
(* The state machine of the console and the keys: the program is as the     *)
(* script of main.js leaves it, and the page gets key events, with the      *)
(* focus in the console input or not: Backquote, Escape in the input, and   *)
(* tracked and untracked keys going down and up.                            *)

\* the codes of the key events: four tracked ones and one that is not
KeyCodes == {"KeyW", "KeyD", "ArrowLeft", "ArrowUp", "KeyQ"}

InitConsole == InitBoot

\* the console input gains or loses focus
InputFocus ==
    /\ kb' = clearKeys(kb)
    /\ UNCHANGED <<boot, debugConsole, registry>>
    /\ ShellFrame

NextConsole ==
    \/ \E typing \in BOOLEAN : Backquote(typing)
    \/ Escape
    \/ \E code \in KeyCodes, typing \in BOOLEAN : KeyDown(code, typing)
    \/ \E code \in KeyCodes, typing \in BOOLEAN : KeyUp(code, typing)
    \/ InputFocus

SpecConsole == InitConsole /\ [][NextConsole]_vars

----------------------------------------------------------------------------
(* The state machine of the keyboard handler on its own: the calls of its   *)
(* interface in any order, destroy() among them, and key events.            *)

InitKeyboard == InitBoot

NextKeyboard ==
    \/ Destroy
    \/ \E v \in BOOLEAN : SetEnabled(v)
    \/ Clear
    \/ \E code \in KeyCodes, typing \in BOOLEAN : KeyDown(code, typing)
    \/ \E code \in KeyCodes, typing \in BOOLEAN : KeyUp(code, typing)

SpecKeyboard == InitKeyboard /\ [][NextKeyboard]_vars

----------------------------------------------------------------------------
(* Properties of the search.  They speak about the last call, recorded in  *)
(* search, and about the field the call ran on.                            *)

\* Chebyshev distance between two tiles
Cheb(tx0, ty0, tx, ty) == Max(Abs(tx - tx0), Abs(ty - ty0))

\* the square of tiles within Chebyshev distance m of (tx0, ty0)
Square(tx0, ty0, m) ==
    {<<x, y>> : x \in (tx0 - m)..(tx0 + m), y \in (ty0 - m)..(ty0 + m)}

\* the tiles of the target id within the caller's max radius of the start
MatchesWithin ==
    {t \in Square(search.startTx, search.startTy, search.maxTiles) :
        classifyIdAt(createCommandContext, t[1], t[2]) = search.targetId}

\* the tiles of the target id in the window, whatever their distance
MatchesInWindow ==
    {t \in Tiles : classifyIdAt(createCommandContext, t[1], t[2]) = search.targetId}

\* squared Euclidean distance of tile t from the start of the last call
StartDist2(t) == dist2Tiles(search.startTx, search.startTy, t[1], t[2])

\* C1: a result flagged exact=true is a tile of the target id within the
\* caller's max radius, and no tile of the target id in that square is
\* strictly closer (Euclidean) to the start.
C1_ExactIsNearest ==
    (search # null /\ search.res # null /\ search.res.exact)
        => /\ <<search.res.tx, search.res.ty>> \in MatchesWithin
           /\ \A t \in MatchesWithin : StartDist2(t) >= search.res.d2

\* C2: with exactly one tile of the target id within the max radius and no
\* hint stored for the id, the call returns that tile, its Euclidean
\* distance from the start, and exact=true.
C2_UniqueMatchExact ==
    (search # null /\ search.hint = null /\ Cardinality(MatchesWithin) = 1)
        => /\ search.res # null
           /\ <<search.res.tx, search.res.ty>> \in MatchesWithin
           /\ search.res.d2 = StartDist2(<<search.res.tx, search.res.ty>>)
           /\ search.res.exact

\* C3: a call with max radius >= 1 classifies no tile and returns no tile
\* beyond Chebyshev distance max radius of the start, and it returns null
\* when no tile of the target id lies within that distance.
C3_BoundRespected ==
    (search # null /\ search.maxTiles >= 1)
        => /\ \A i \in DOMAIN search.calls :
                  Cheb(search.startTx, search.startTy,
                       search.calls[i][1], search.calls[i][2]) <= search.maxTiles
           /\ search.res # null =>
                  Cheb(search.startTx, search.startTy,
                       search.res.tx, search.res.ty) <= search.maxTiles
           /\ MatchesWithin = {} => search.res = null

\* a call that classified tiles, whose target id occurs in the field only
\* beyond the max radius, and that returned null
C3_Witness ==
    /\ search # null
    /\ search.maxTiles >= 1
    /\ Len(search.calls) > 0
    /\ MatchesWithin = {}
    /\ MatchesInWindow # {}
    /\ search.res = null

\* C4: on a fixed field, over any sequence of calls (hints stored by the
\* earlier ones), a call returns null only if no tile within the max radius
\* of its start has the target id.
C4_NullOnlyIfNoMatch ==
    (search # null /\ MatchesWithin # {}) => search.res # null

\* a call whose bound a stored hint tightened below the max radius, and
\* which returned a tile
C4_Witness ==
    /\ search # null
    /\ search.hint # null
    /\ search.res # null
    /\ search.res.bounded < search.maxTiles
    /\ search.coarseHit = null

\* C5: within one call no tile is handed to classifyIdAt twice, counting
\* all coarse strides and the exact phase together.
C5_ClassifiedOnce ==
    search # null
        => \A i, j \in DOMAIN search.calls :
               i # j => search.calls[i] # search.calls[j]

\* a call that found nothing, so that the coarse strides and then the exact
\* phase went over the whole square: every tile of it was classified
C5_Witness ==
    /\ search # null
    /\ search.maxTiles >= 2
    /\ search.res = null
    /\ Len(search.calls) = (2 * search.maxTiles + 1) * (2 * search.maxTiles + 1)

\* C6: whenever the coarse phase finds a hit the exact phase finds a tile
\* too, so no result is flagged exact=false.
C6_FallbackUnreachable ==
    (search # null /\ search.coarseHit # null)
        => (search.res # null /\ search.res.exact)

\* C7: after a call for target id T that returned a tile, LAST_HIT[T] is
\* that tile, on the exact path, the no-coarse-hit path and the fallback path.
C7_HintIsResult ==
    (search # null /\ search.res # null)
        => /\ search.targetId \in DOMAIN LAST_HIT
           /\ LAST_HIT[search.targetId] = [tx |-> search.res.tx, ty |-> search.res.ty]

\* a call that returned on the fallback path and replaced an older hint
C7_Witness ==
    /\ search # null
    /\ search.res # null
    /\ ~search.res.exact
    /\ search.hint # null
    /\ search.hint # [tx |-> search.res.tx, ty |-> search.res.ty]
    /\ LAST_HIT[search.targetId] = [tx |-> search.res.tx, ty |-> search.res.ty]

----------------------------------------------------------------------------
(* Properties of the World cache.  They speak about the Map, the mode and  *)
(* the last call, recorded in lastOp with the state it was made in.         *)

\* C8: every canvas in the Map was generated under the current view mode and
\* equals the canvas generated afresh under it; so does the canvas a
\* getChunkCanvas call returned, whatever modes were set before (A, B, A).
C8_CacheCoherent ==
    /\ \A k \in DOMAIN chunks :
           /\ chunkMode[k] = viewMode
           /\ chunks[k] = generateChunkCanvas(k[1], k[2], viewMode)
    /\ (lastOp # null /\ lastOp.op = "getChunkCanvas")
           => lastOp.returned = generateChunkCanvas(lastOp.cx, lastOp.cy, viewMode)

\* the modes went A, B, A, and a region fetched then is the canvas of mode A,
\* which differs from the one mode B gives
C8_Witness ==
    /\ lastOp # null
    /\ lastOp.op = "getChunkCanvas"
    /\ Len(modeLog) = 3
    /\ modeLog[1] = modeLog[3]
    /\ modeLog[2] # modeLog[3]
    /\ viewMode = modeLog[3]
    /\ lastOp.returned = generateChunkCanvas(lastOp.cx, lastOp.cy, modeLog[1])
    /\ lastOp.returned # generateChunkCanvas(lastOp.cx, lastOp.cy, modeLog[2])

\* C9: getChunkCanvas(cx, cy) returns the stored canvas when the Map holds
\* one for (cx, cy), generating nothing; otherwise it generates the canvas
\* under the current mode, stores it and returns it.  Between two mode
\* changes no region is generated more than once.
C9_GetOrGenerate ==
    /\ (lastOp # null /\ lastOp.op = "getChunkCanvas")
           => LET k == chunkKey(lastOp.cx, lastOp.cy)
              IN  IF k \in DOMAIN lastOp.before.chunks
                  THEN /\ ~lastOp.generated
                       /\ lastOp.returned = lastOp.before.chunks[k]
                       /\ chunks = lastOp.before.chunks
                  ELSE /\ lastOp.generated
                       /\ lastOp.returned =
                              generateChunkCanvas(lastOp.cx, lastOp.cy, lastOp.before.viewMode)
                       /\ k \in DOMAIN chunks
                       /\ chunks[k] = lastOp.returned
                       /\ \A j \in DOMAIN lastOp.before.chunks :
                              j \in DOMAIN chunks /\ chunks[j] = lastOp.before.chunks[j]
    /\ \A r \in Regions : generations[r] <= 1

\* a region requested again: the call returned the stored canvas, and the
\* region has been generated once since the last mode change
C9_Witness ==
    /\ lastOp # null
    /\ lastOp.op = "getChunkCanvas"
    /\ ~lastOp.generated
    /\ chunkKey(lastOp.cx, lastOp.cy) \in DOMAIN lastOp.before.chunks
    /\ generations[chunkKey(lastOp.cx, lastOp.cy)] = 1
    /\ Len(modeLog) > 1

\* C10: setViewMode(m) with a valid m other than the current mode leaves the
\* Map empty and the mode m: no canvas generated under the previous mode
\* survives the change.
C10_ModeChangeClears ==
    (/\ lastOp # null
     /\ lastOp.op = "setViewMode"
     /\ toLowerCase(lastOp.mode) \in VIEW_MODES
     /\ toLowerCase(lastOp.mode) # lastOp.before.viewMode)
        => /\ chunks = <<>>
           /\ viewMode = toLowerCase(lastOp.mode)
           /\ ~lastOp.threw

\* a mode change made while the Map held a canvas for every region
C10_Witness ==
    /\ lastOp # null
    /\ lastOp.op = "setViewMode"
    /\ toLowerCase(lastOp.mode) \in VIEW_MODES
    /\ toLowerCase(lastOp.mode) # lastOp.before.viewMode
    /\ DOMAIN lastOp.before.chunks = Regions
    /\ chunks = <<>>
    /\ viewMode = toLowerCase(lastOp.mode)

\* C11: setViewMode(m) with m the current mode changes nothing: the mode and
\* the Map (its keys and the canvas under every key) are as before the call.
C11_SameModeNoOp ==
    (/\ lastOp # null
     /\ lastOp.op = "setViewMode"
     /\ toLowerCase(lastOp.mode) = lastOp.before.viewMode)
        => /\ ~lastOp.threw
           /\ viewMode = lastOp.before.viewMode
           /\ chunks = lastOp.before.chunks
           /\ \A k \in DOMAIN chunks : chunkMode[k] = viewMode

\* the current mode set again while the Map held a canvas for every region
C11_Witness ==
    /\ lastOp # null
    /\ lastOp.op = "setViewMode"
    /\ lastOp.mode = lastOp.before.viewMode
    /\ DOMAIN lastOp.before.chunks = Regions
    /\ chunks = lastOp.before.chunks
    /\ Len(modeLog) > 1

\* C12, as stated: setViewMode with a value that is not one of the eight
\* mode names fails and leaves the mode and the Map unchanged.
C12_UnlistedModeFails ==
    (/\ lastOp # null
     /\ lastOp.op = "setViewMode"
     /\ lastOp.mode \notin VIEW_MODES)
        => /\ lastOp.threw
           /\ viewMode = lastOp.before.viewMode
           /\ chunks = lastOp.before.chunks

\* C12, amended: setViewMode with a value whose lower-cased string is not one
\* of the eight mode names fails and leaves the mode and the Map unchanged;
\* a call that does not fail was given a mode name in some letter case.
C12_InvalidModeFails ==
    (lastOp # null /\ lastOp.op = "setViewMode")
        => /\ lastOp.threw <=> toLowerCase(lastOp.mode) \notin VIEW_MODES
           /\ lastOp.threw => /\ viewMode = lastOp.before.viewMode
                              /\ chunks = lastOp.before.chunks
                              /\ \A k \in DOMAIN chunks : chunkMode[k] = viewMode

\* an unknown mode refused while the Map held canvases of a mode other
\* than the initial one
C12_Witness ==
    /\ lastOp # null
    /\ lastOp.op = "setViewMode"
    /\ lastOp.mode = "heat"
    /\ lastOp.threw
    /\ DOMAIN chunks = Regions
    /\ viewMode # "biomes"
    /\ chunks = lastOp.before.chunks

----------------------------------------------------------------------------
(* Properties of the classifier and of the prototype table.  They speak    *)
(* about ACTIVE_BIOMES and about the last event, recorded in biomeOp with    *)
(* the list it began with.                                                  *)

\* the sum over the axes in S of weight * (query - prototype)^2
RECURSIVE AxisSum(_, _, _, _)
AxisSum(S, q, p, w) ==
    IF S = {} THEN 0
    ELSE LET k == CHOOSE k \in S : TRUE
         IN  w[k] * (q[k] - p[k]) * (q[k] - p[k]) + AxisSum(S \ {k}, q, p, w)

\* every axis value of every prototype of the list is a number
AxesAreNumbers(list) ==
    \A i \in DOMAIN list : \A k \in AxisNames : list[i][k] # NaN

\* C13: for a non-empty list of prototypes (axis values numbers, as a
\* prototype has them) and a query, classifyAxes returns the prototype of
\* least weighted squared distance, the earliest in the list among those at
\* exactly that distance, and reports that distance as dist.
C13_NearestFirstWins ==
    (/\ biomeOp # null
     /\ biomeOp.op = "classify"
     /\ Len(biomeOp.before) > 0
     /\ AxesAreNumbers(biomeOp.before))
        => \E i \in DOMAIN biomeOp.before :
               /\ \A j \in DOMAIN biomeOp.before :
                      AxisSum(AxisNames, biomeOp.axes, biomeOp.before[j], CLASSIFY_WEIGHTS)
                          >= AxisSum(AxisNames, biomeOp.axes, biomeOp.before[i], CLASSIFY_WEIGHTS)
               /\ \A j \in 1..(i - 1) :
                      AxisSum(AxisNames, biomeOp.axes, biomeOp.before[j], CLASSIFY_WEIGHTS)
                          > AxisSum(AxisNames, biomeOp.axes, biomeOp.before[i], CLASSIFY_WEIGHTS)
               /\ biomeOp.result =
                      [id |-> biomeOp.before[i].id, label |-> biomeOp.before[i].label,
                       color |-> biomeOp.before[i].color,
                       dist |-> AxisSum(AxisNames, biomeOp.axes, biomeOp.before[i],
                                        CLASSIFY_WEIGHTS)]

\* a classification over two prototypes of different ids, both at distance 0
\* from the query: the first of the list was returned
C13_Witness ==
    /\ biomeOp # null
    /\ biomeOp.op = "classify"
    /\ Len(biomeOp.before) = 2
    /\ AxesAreNumbers(biomeOp.before)
    /\ biomeOp.before[1].id # biomeOp.before[2].id
    /\ AxisSum(AxisNames, biomeOp.axes, biomeOp.before[1], CLASSIFY_WEIGHTS) = 0
    /\ AxisSum(AxisNames, biomeOp.axes, biomeOp.before[2], CLASSIFY_WEIGHTS) = 0
    /\ biomeOp.result.id = biomeOp.before[1].id
    /\ biomeOp.result.dist = 0

\* C14: classifyAxes fails only if the list is empty: over every non-empty
\* list, those a loaded table yields included, it returns one prototype of
\* the list, and over an empty list it fails.
C14_FailsOnlyIfEmpty ==
    (biomeOp # null /\ biomeOp.op = "classify")
        => IF Len(biomeOp.before) = 0 THEN "error" \in DOMAIN biomeOp.result
           ELSE /\ "error" \notin DOMAIN biomeOp.result
                /\ \E i \in DOMAIN biomeOp.before :
                       /\ biomeOp.result.id = biomeOp.before[i].id
                       /\ biomeOp.result.label = biomeOp.before[i].label
                       /\ biomeOp.result.color = biomeOp.before[i].color

\* the load attempt recorded in biomeOp replaced nothing: it threw, the
\* response was not ok, or the text held no prototype
LoadKeptList ==
    \/ biomeOp.outcome \in {"fetch threw", "not ok", "text threw"}
    \/ biomeOp.outcome = "parsed" /\ Len(parseBiomesCSV(biomeOp.text)) = 0

\* C15: after a load attempt ACTIVE_BIOMES is the very list it was before
\* (fetch or text threw, response not ok, nothing parsed) or else exactly
\* the whole list parsed from the text, and the attempt returned that list.
C15_AllOrNothing ==
    (biomeOp # null /\ biomeOp.op = "load")
        => /\ LoadKeptList => ACTIVE_BIOMES = biomeOp.before
           /\ ~LoadKeptList => ACTIVE_BIOMES = parseBiomesCSV(biomeOp.text)
           /\ biomeOp.result = ACTIVE_BIOMES

\* a loaded list of two prototypes replaced by another loaded list, of which
\* no prototype was in the old one
C15_Witness ==
    /\ biomeOp # null
    /\ biomeOp.op = "load"
    /\ biomeOp.outcome = "parsed"
    /\ biomeOp.before # DEFAULT_ALABAMA_BIOMES
    /\ Len(biomeOp.before) = 2
    /\ Len(ACTIVE_BIOMES) = 2
    /\ ACTIVE_BIOMES = parseBiomesCSV(biomeOp.text)
    /\ \A i \in DOMAIN ACTIVE_BIOMES, j \in DOMAIN biomeOp.before :
           ACTIVE_BIOMES[i] # biomeOp.before[j]

\* the lines of text that are data rows: not blank, not a comment, and not
\* the header standing as the first non-blank line
DataRows(text) ==
    {i \in DOMAIN text :
        /\ ~LineIsBlank(text[i])
        /\ ~StartsWithHash(text[i])
        /\ ~(IsHeaderLine(text[i]) /\ \A j \in 1..(i - 1) : LineIsBlank(text[j]))}

\* the data rows of text with at least 10 fields
LongRows(text) == {i \in DataRows(text) : Len(text[i]) >= 10}

\* the k-th smallest element of the set S of numbers
RECURSIVE KthOf(_, _)
KthOf(S, k) ==
    LET m == CHOOSE x \in S : \A y \in S : x <= y
    IN  IF k = 1 THEN m ELSE KthOf(S \ {m}, k - 1)

\* C16: parseBiomesCSV yields one prototype for each data row of at least 10
\* fields, in row order, and none for a data row of fewer fields; a short
\* row does not end the parsing of the rows after it.
C16_OnePerLongRow ==
    (biomeOp # null /\ biomeOp.op = "load" /\ biomeOp.outcome = "parsed")
        => /\ Len(parseBiomesCSV(biomeOp.text)) = Cardinality(LongRows(biomeOp.text))
           /\ \A k \in DOMAIN parseBiomesCSV(biomeOp.text) :
                  /\ parseBiomesCSV(biomeOp.text)[k].label
                         = biomeOp.text[KthOf(LongRows(biomeOp.text), k)][2]
                  /\ parseBiomesCSV(biomeOp.text)[k].id
                         = IdOf(Number(biomeOp.text[KthOf(LongRows(biomeOp.text), k)][1]))

\* a text whose first line is short and whose second line is a row of 10
\* fields: the second line became the only prototype of the active list
C16_Witness ==
    /\ biomeOp # null
    /\ biomeOp.op = "load"
    /\ biomeOp.outcome = "parsed"
    /\ Len(biomeOp.text) = 2
    /\ DataRows(biomeOp.text) = {1, 2}
    /\ Len(biomeOp.text[1]) < 10
    /\ Len(biomeOp.text[2]) >= 10
    /\ Len(ACTIVE_BIOMES) = 1
    /\ ACTIVE_BIOMES[1].label = biomeOp.text[2][2]

\* C17: every axis value of every prototype parsed from a table, and so of
\* ACTIVE_BIOMES in every state, is within [0,1], whatever the field text.
C17_AxesInUnitRange ==
    /\ \A i \in DOMAIN ACTIVE_BIOMES : \A k \in AxisNames :
           ACTIVE_BIOMES[i][k] \in 0..100
    /\ (biomeOp # null /\ biomeOp.op = "load" /\ biomeOp.outcome = "parsed")
           => \A i \in DOMAIN parseBiomesCSV(biomeOp.text) : \A k \in AxisNames :
                  parseBiomesCSV(biomeOp.text)[i][k] \in 0..100

\* C18: ACTIVE_BIOMES is never empty, whatever load attempts were made.
C18_NeverEmpty == Len(ACTIVE_BIOMES) > 0

\* a loaded list survived an attempt whose text had lines but no prototype
C18_Witness ==
    /\ biomeOp # null
    /\ biomeOp.op = "load"
    /\ biomeOp.outcome = "parsed"
    /\ Len(biomeOp.text) > 0
    /\ Len(parseBiomesCSV(biomeOp.text)) = 0
    /\ ACTIVE_BIOMES # DEFAULT_ALABAMA_BIOMES
    /\ ACTIVE_BIOMES = biomeOp.before

\* C19: the ids of ACTIVE_BIOMES are positive integers, no two the same.
C19_IdsDistinctPositive ==
    /\ \A i \in DOMAIN ACTIVE_BIOMES :
           ACTIVE_BIOMES[i].id # NaN /\ ACTIVE_BIOMES[i].id >= 1
    /\ \A i, j \in DOMAIN ACTIVE_BIOMES :
           i # j => ACTIVE_BIOMES[i].id # ACTIVE_BIOMES[j].id

----------------------------------------------------------------------------
(* Properties of a reload.                                                 *)

\* the step replaces ACTIVE_BIOMES: it is the step in which a load attempt
\* returns, and the new list is the whole list parsed from the text
SwapStep ==
    /\ loading = "text"
    /\ loading' = "idle"
    /\ biomeOp'.op = "load"
    /\ biomeOp'.before = ACTIVE_BIOMES
    /\ ACTIVE_BIOMES' = parseBiomesCSV(biomeOp'.text)

\* the step is a classification: it ran on the list of the state it began in
\* and returned a prototype of it
ClassifyRead ==
    /\ ACTIVE_BIOMES' = ACTIVE_BIOMES
    /\ biomeOp'.before = ACTIVE_BIOMES
    /\ \E i \in DOMAIN ACTIVE_BIOMES :
           /\ biomeOp'.result.id = ACTIVE_BIOMES[i].id
           /\ biomeOp'.result.label = ACTIVE_BIOMES[i].label

\* the step rasterises a region: every tile of the canvas has the colour of
\* its class under the one list of the state the step began in
RasterRead ==
    /\ ACTIVE_BIOMES' = ACTIVE_BIOMES
    /\ lastOp'.list = ACTIVE_BIOMES
    /\ \A t \in RasterTiles :
           lastOp'.returned[t] =
               classifyAxes(sampleAxes(lastOp'.cx * CHUNK_SIZE + t[1],
                                       lastOp'.cy * CHUNK_SIZE + t[2]),
                            ACTIVE_BIOMES, CLASSIFY_WEIGHTS).color

\* the step is a search: the tile it returned has the target class under the
\* one list of the state the step began in
SearchRead ==
    /\ ACTIVE_BIOMES' = ACTIVE_BIOMES
    /\ search'.list = ACTIVE_BIOMES
    /\ search'.res # null =>
           classifyAxes(sampleAxes(search'.res.tx, search'.res.ty),
                        ACTIVE_BIOMES, CLASSIFY_WEIGHTS).id = search'.targetId

\* C20: ACTIVE_BIOMES changes only in the one step in which a load attempt
\* returns, and then to the whole parsed list; a classification, a
\* rasterisation of a region and a findNearestBiome call, made while a load
\* attempt is in flight or not, each run on one list from beginning to end,
\* the whole old one or the whole new one.
C20_ReadersSeeWholeList ==
    [][/\ ACTIVE_BIOMES' # ACTIVE_BIOMES => SwapStep
       /\ (biomeOp' # biomeOp /\ biomeOp'.op = "classify") => ClassifyRead
       /\ (lastOp' # lastOp /\ lastOp'.generated) => RasterRead
       /\ search' # search => SearchRead]_vars

\* a region was rasterised and a search ran while a load attempt awaited its
\* text, both on a loaded list under which the tiles of the region are of two
\* classes; the attempt has since returned and swapped another list in
C20_Witness ==
    /\ lastOp # null
    /\ lastOp.generated
    /\ lastOp.during = "text"
    /\ lastOp.list # DEFAULT_ALABAMA_BIOMES
    /\ \E t, u \in RasterTiles : lastOp.returned[t] # lastOp.returned[u]
    /\ search # null
    /\ search.during = "text"
    /\ search.list = lastOp.list
    /\ search.res # null
    /\ biomeOp # null
    /\ biomeOp.op = "load"
    /\ biomeOp.outcome = "parsed"
    /\ biomeOp.before = lastOp.list
    /\ ACTIVE_BIOMES # lastOp.list
    /\ loading = "idle"

----------------------------------------------------------------------------
(* Properties of the noise functions.                                      *)

\* C24: hash2i returns a uint32 for all integer arguments, negative ones and
\* ones beyond 32 bits included, and hash2f = hash2i / 2^32 lies in [0,1).
C24_HashIsUint32 ==
    (noiseOp # null /\ noiseOp.op = "hash")
        => /\ ~noiseOp.result.h.signed
           /\ noiseOp.result.h.hi \in 0..65535
           /\ noiseOp.result.h.lo \in 0..65535
           /\ noiseOp.result.f \in 0..999

\* a hash of a negative ix, an iy beyond 32 bits and a seed beyond 32 bits
\* whose highest bit is set
C24_Witness ==
    /\ noiseOp # null
    /\ noiseOp.op = "hash"
    /\ noiseOp.args[1].neg
    /\ Len(noiseOp.args[2].mag) = 3
    /\ Len(noiseOp.args[3].mag) = 3
    /\ noiseOp.result.h.hi >= 32768

\* the seven fields of an AxesVector all lie in [0,1]
InUnitRange(axes) == \A a \in AxisNames : axes[a] \in 0..1000

Least(q) == CHOOSE v \in {q[i] : i \in DOMAIN q} : \A i \in DOMAIN q : v <= q[i]
Greatest(q) == CHOOSE v \in {q[i] : i \in DOMAIN q} : \A i \in DOMAIN q : v >= q[i]

\* C23: fbm2 returns the average of the values of its octaves weighted by
\* gain^i: for 1 to 8 octaves whose values lie in [0,1) the result lies
\* between the least and the greatest of them, and so in [0,1].
C23_FbmIsWeightedAverage ==
    (noiseOp # null /\ noiseOp.op \in {"average", "fbm2"})
        => /\ Len(noiseOp.result.samples) \in 1..MaxOctaves
           /\ \A i \in DOMAIN noiseOp.result.samples : noiseOp.result.samples[i] \in 0..999
           /\ noiseOp.result.value >= Least(noiseOp.result.samples)
           /\ noiseOp.result.value <= Greatest(noiseOp.result.samples)
           /\ noiseOp.result.value \in 0..1000

\* fbm2 over eight octaves of value noise, strictly between the least and the
\* greatest of them
C23_Witness ==
    /\ noiseOp # null
    /\ noiseOp.op = "fbm2"
    /\ Len(noiseOp.result.samples) = 8
    /\ noiseOp.result.value > Least(noiseOp.result.samples)
    /\ noiseOp.result.value < Greatest(noiseOp.result.samples)

----------------------------------------------------------------------------
(* Properties of the parts of the search.  They speak about the last call, *)
(* recorded in phase, and about the field it ran on.                        *)

\* the tiles of the target id of the last call within Chebyshev distance m
\* of its start
PhaseMatches(m) ==
    {t \in Square(phase.tx0, phase.ty0, m) :
        classifyIdAt(createCommandContext, t[1], t[2]) = phase.targetId}

\* squared Euclidean distance of tile t from the start of the last call
PhaseDist2(t) == dist2Tiles(phase.tx0, phase.ty0, t[1], t[2])

\* C25: exactNearestWithinBound on an empty visited set returns a tile of
\* the target id within Chebyshev distance ub of the start such that no tile
\* of the target id within ub is strictly closer (Euclidean), and it returns
\* null exactly when no tile within ub has the target id.
C25_ExactPhaseIsNearest ==
    (phase # null /\ phase.op = "exact")
        => /\ phase.out.best = null <=> PhaseMatches(phase.ub) = {}
           /\ phase.out.best # null =>
                  /\ <<phase.out.best.tx, phase.out.best.ty>> \in PhaseMatches(phase.ub)
                  /\ phase.out.best.d2 = PhaseDist2(<<phase.out.best.tx, phase.out.best.ty>>)
                  /\ \A t \in PhaseMatches(phase.ub) : PhaseDist2(t) >= phase.out.best.d2

\* the corner of ring 3 and a tile of ring 4 both have the target id, the
\* tile of ring 4 is the closer one and is returned
C25_Witness ==
    /\ phase # null
    /\ phase.op = "exact"
    /\ phase.ub >= 4
    /\ phase.out.best # null
    /\ Cheb(phase.tx0, phase.ty0, phase.out.best.tx, phase.out.best.ty) = 4
    /\ \E t \in PhaseMatches(3) : PhaseDist2(t) > phase.out.best.d2

\* the rings of which the exact phase classified a tile
ScannedRings ==
    {Cheb(phase.tx0, phase.ty0, phase.out.mem.calls[i][1], phase.out.mem.calls[i][2]) :
        i \in DOMAIN phase.out.mem.calls}

\* after ring r a match is recorded with sqrt(best.d2) <= r
StopsAfter(r) == \E t \in PhaseMatches(r) : PhaseDist2(t) <= r * r

\* C26: the exact phase scans ring 0, and ring r + 1 if and only if it
\* scanned ring r, r < ub, and no match is recorded after ring r or
\* sqrt(best.d2) > r; it classifies every tile of a scanned ring and no tile
\* of any other.
C26_EarlyExit ==
    (phase # null /\ phase.op = "exact")
        => /\ 0 \in ScannedRings
           /\ \A r \in 0..phase.ub :
                  (r + 1 \in ScannedRings)
                      <=> (r \in ScannedRings /\ r < phase.ub /\ ~StopsAfter(r))
           /\ \A r \in ScannedRings : r <= phase.ub
           /\ \A r \in ScannedRings :
                  \A t \in Square(phase.tx0, phase.ty0, r) :
                      \E i \in DOMAIN phase.out.mem.calls : phase.out.mem.calls[i] = t

\* a match at the corner of ring 1, so the scan went on to ring 2 and
\* stopped there, two rings short of the bound
C26_Witness ==
    /\ phase # null
    /\ phase.op = "exact"
    /\ phase.ub = 4
    /\ phase.out.best # null
    /\ phase.out.best.d2 = 2
    /\ ScannedRings = {0, 1, 2}

\* the strides the coarse loop called coarseFirstHit with, in order
StridesTried == [i \in DOMAIN phase.co.stepStats |-> phase.co.stepStats[i].step]

\* the bound before the coarse loop: the max radius, or the Chebyshev
\* distance h of the hint when 0 < h < max radius
PreviousBound ==
    IF phase.hint # null
       /\ Cheb(phase.tx0, phase.ty0, phase.hint.tx, phase.hint.ty) > 0
       /\ Cheb(phase.tx0, phase.ty0, phase.hint.tx, phase.hint.ty) < phase.maxTiles
    THEN Cheb(phase.tx0, phase.ty0, phase.hint.tx, phase.hint.ty)
    ELSE phase.maxTiles

\* the tiles of the target id on the lattice of stride s around the start,
\* within the previous bound
LatticeMatches(s) ==
    {t \in PhaseMatches(PreviousBound) :
        /\ (t[1] - phase.tx0) % s = 0
        /\ (t[2] - phase.ty0) % s = 0}

\* C27: the coarse loop tries the strides in strictly descending order and
\* stops at the first stride with a hit; the bound it leaves for the exact
\* phase is min(previous bound, Chebyshev radius of the hit), the previous
\* bound being the max radius or the hint's Chebyshev distance h when
\* 0 < h < max radius.  The bound never exceeds the previous bound nor the
\* max radius.
C27_CoarseStopsAtFirstHit ==
    (phase # null /\ phase.op = "coarse")
        => /\ \A i, j \in DOMAIN StridesTried : i < j => StridesTried[i] > StridesTried[j]
           /\ \A i \in DOMAIN StridesTried :
                  i < Len(StridesTried) => LatticeMatches(StridesTried[i]) = {}
           /\ IF phase.co.coarseHit = null
              THEN /\ \A i \in DOMAIN StridesTried : LatticeMatches(StridesTried[i]) = {}
                   /\ {StridesTried[i] : i \in DOMAIN StridesTried}
                          = {s \in 2..CHUNK_SIZE : \E k \in 1..6 : s = Pow2(k)}
                   /\ phase.co.upperBound = PreviousBound
              ELSE /\ <<phase.co.coarseHit.tx, phase.co.coarseHit.ty>>
                          \in LatticeMatches(StridesTried[Len(StridesTried)])
                   /\ phase.co.coarseHit.cheb = Cheb(phase.tx0, phase.ty0,
                                                     phase.co.coarseHit.tx, phase.co.coarseHit.ty)
                   /\ phase.co.upperBound = Min(PreviousBound, phase.co.coarseHit.cheb)
           /\ phase.co.upperBound <= PreviousBound
           /\ PreviousBound <= phase.maxTiles

\* a hint tightened the bound below the max radius, the five larger strides
\* found nothing, stride 2 hit a tile nearer than the hint
C27_Witness ==
    /\ phase # null
    /\ phase.op = "coarse"
    /\ phase.hint # null
    /\ PreviousBound < phase.maxTiles
    /\ phase.co.coarseHit # null
    /\ Len(StridesTried) = 6
    /\ StridesTried[6] = 2
    /\ phase.co.upperBound < PreviousBound

\* the points (tx0 + i*s, ty0 + j*s) with max(|i|,|j|) = r
RingPoints(tx0, ty0, r, s) ==
    {<<tx0 + i * s, ty0 + j * s>> : i \in (0 - r)..r, j \in (0 - r)..r}
        \ {<<tx0 + i * s, ty0 + j * s>> : i \in (1 - r)..(r - 1), j \in (1 - r)..(r - 1)}

\* a sequence of calls is on the tiles of S, each once
OncePerTile(calls, S) ==
    /\ {calls[i] : i \in DOMAIN calls} = S
    /\ Len(calls) = Cardinality(S)

\* C28: forEachRing with r >= 1 and stride s >= 1 calls cb once on each of
\* the 8r points (tx0 + i*s, ty0 + j*s) with max(|i|,|j|) = r and on no
\* other; with r = 0 once, on the centre.  Rings 0..ub at stride 1 call it
\* once on every tile within Chebyshev distance ub.
C28_RingOncePerPoint ==
    /\ (phase # null /\ phase.op = "ring")
           => /\ OncePerTile(phase.calls, RingPoints(phase.tx0, phase.ty0, phase.r, phase.step))
              /\ phase.r >= 1 => Len(phase.calls) = 8 * phase.r
              /\ phase.r = 0 => phase.calls = << <<phase.tx0, phase.ty0>> >>
    /\ (phase # null /\ phase.op = "rings")
           => /\ OncePerTile(phase.calls, Square(phase.tx0, phase.ty0, phase.ub))
              /\ Len(phase.calls) = (2 * phase.ub + 1) * (2 * phase.ub + 1)

\* a ring of radius 3 at stride 3: 24 calls, the corner nine tiles away
C28_Witness ==
    /\ phase # null
    /\ phase.op = "ring"
    /\ phase.r = 3
    /\ phase.step = 3
    /\ Len(phase.calls) = 24
    /\ \E i \in DOMAIN phase.calls : phase.calls[i] = <<phase.tx0 + 9, phase.ty0 - 9>>

----------------------------------------------------------------------------
(* Properties of the result of a search and of the hints under             *)
(* replacement of the prototypes.                                           *)

\* the id the list of prototypes gives the tile (tx, ty)
IdUnder(list, tx, ty) ==
    LET cls == classifyAxes(getAxesAtTile(tx, ty), list, CLASSIFY_WEIGHTS)
    IN  IF cls.id = NaN THEN 0 ELSE cls.id

\* C29: a result of findNearestBiome that is not null names a tile which the
\* classifier active during the call gives the target id, at a Chebyshev
\* distance from the start of at most the reported bound, which is at most
\* the caller's max radius; on the exact, the no-coarse-hit and the fallback
\* path, with or without a hint stored.
C29_ResultWithinBound ==
    (search # null /\ search.res # null)
        => /\ IdUnder(search.list, search.res.tx, search.res.ty) = search.targetId
           /\ Cheb(search.startTx, search.startTy, search.res.tx, search.res.ty)
                  <= search.res.bounded
           /\ search.res.bounded <= search.maxTiles

\* a tile returned on the fallback path, two tiles from the start, at the
\* bound, with a hint stored for the target id
C29_Witness ==
    /\ search # null
    /\ search.res # null
    /\ ~search.res.exact
    /\ search.hint # null
    /\ search.res.bounded = 2
    /\ Cheb(search.startTx, search.startTy, search.res.tx, search.res.ty) = 2

\* C30: among replacements of the prototypes, a call of findNearestBiome
\* returns null only when no tile within the caller's max radius of the
\* start has the target id under the prototypes active during the call; a
\* hint stored under earlier prototypes makes no match within the max
\* radius be missed.
C30_NullOnlyIfNoMatchUnderActive ==
    (search # null /\ search.res = null)
        => \A t \in Square(search.startTx, search.startTy, search.maxTiles) :
               IdUnder(search.list, t[1], t[2]) # search.targetId

----------------------------------------------------------------------------
(* Properties of the World cache under replacement of the prototypes.      *)

\* the canvas of region (cx, cy) computed afresh under a view mode and a
\* list of prototypes
FreshCanvas(cx, cy, mode, list) ==
    [t \in RasterTiles |->
        IF mode = "biomes"
        THEN classifyAxes(sampleAxes(cx * CHUNK_SIZE + t[1], cy * CHUNK_SIZE + t[2]),
                          list, CLASSIFY_WEIGHTS).color
        ELSE TileColor(sampleAxes(cx * CHUNK_SIZE + t[1], cy * CHUNK_SIZE + t[2]), mode)]

\* C31: among getChunkCanvas calls and replacements of the prototypes, the
\* canvas getChunkCanvas(cx, cy) returns is the canvas computed afresh from
\* the view mode and the prototypes active at the call, whether the Map
\* held a canvas for the region or not.
C31_HitEqualsMiss ==
    (lastOp # null /\ lastOp.op = "getChunkCanvas")
        => lastOp.returned
               = FreshCanvas(lastOp.cx, lastOp.cy, lastOp.before.viewMode, lastOp.list)

----------------------------------------------------------------------------
(* Properties of the bootstrap, under SpecBoot.                            *)

\* the load attempt of start() has settled: it returned, by whatever path
LoadSettled == loading = "idle" /\ biomeOp # null /\ biomeOp.op = "load"

\* C32: no region raster is generated, and no animation frame requested or
\* run, before the load attempt of start() has settled: whatever resizes,
\* keys and console events come in between, a getChunkCanvas call finds the
\* attempt settled, and the Map of canvases stays empty until then.
C32_NoRasterBeforeLoadSettled ==
    /\ (boot.requested \/ boot.frames > 0) => LoadSettled
    /\ (lastOp # null /\ lastOp.op = "getChunkCanvas")
           => (lastOp.during = "idle" /\ LoadSettled)
    /\ ~LoadSettled => (chunks = <<>> /\ \A r \in Regions : generations[r] = 0)

\* a frame has generated a raster under the replaced prototypes, after a
\* key was pressed, the console toggled and the view mode set while the
\* attempt was in flight
C32_Witness ==
    /\ lastOp # null
    /\ lastOp.op = "getChunkCanvas"
    /\ lastOp.generated
    /\ boot.frames > 0
    /\ biomeOp # null
    /\ biomeOp.outcome = "parsed"
    /\ kb.recorded # {}
    /\ debugConsole.output # <<>>
    /\ viewMode = "temp"
    /\ boot.width = 2

----------------------------------------------------------------------------
(* Properties of a table with a header row, under SpecHeader.              *)

\* C33: when the table begins with the header row
\* id,label,anchor,temp,moist,elev,rough,sal,fert,fire the parser takes the
\* row for a header and makes no prototype of it: the list a load leaves
\* active has no entry with the header's texts, and as many entries as the
\* table has data rows when it has any.
C33_AnchorHeaderIsNoPrototype ==
    (/\ biomeOp # null
     /\ biomeOp.op = "load"
     /\ biomeOp.outcome = "parsed"
     /\ biomeOp.text[1] = AnchorHeaderLine)
        => /\ \A i \in DOMAIN biomeOp.result :
                  biomeOp.result[i].label # "label" /\ biomeOp.result[i].id # NaN
           /\ \/ \A i \in 2..Len(biomeOp.text) : biomeOp.text[i] = CommentLine
              \/ Len(biomeOp.result) =
                     Cardinality({i \in 2..Len(biomeOp.text) : biomeOp.text[i] # CommentLine})

----------------------------------------------------------------------------
(* The frame of the hint map, under SpecSearch.                            *)

\* C34: a findNearestBiome call that returns null leaves LAST_HIT as it
\* was, and a call for target id T that returns a tile changes at most the
\* entry of T: every other entry stays, with its tile, and none is added.
C34_HintFrame ==
    [][/\ search'.res = null => LAST_HIT' = LAST_HIT
       /\ search'.res # null =>
              /\ DOMAIN LAST_HIT' \subseteq DOMAIN LAST_HIT \cup {search'.targetId}
              /\ \A id \in DOMAIN LAST_HIT \ {search'.targetId} :
                     id \in DOMAIN LAST_HIT' /\ LAST_HIT'[id] = LAST_HIT[id]]_vars

\* a successful call has moved the hint of its target while the other
\* target had a hint of its own
C34_Witness ==
    /\ search # null
    /\ search.res # null
    /\ search.hint # null
    /\ LAST_HIT[search.targetId] # search.hint
    /\ DOMAIN LAST_HIT = TargetIds

----------------------------------------------------------------------------
(* Properties of the seeds, under SpecSeeds.                               *)

\* C35: in the wiring of main.js each of the five derived axis seeds
\* depends on the base seed: two runs with different base seeds differ in
\* their temperature seeds, in their roughness seeds, in their salinity
\* seeds, in their fertility seeds and in their fire seeds.
C35_AxisSeedsDependOnBase ==
    (/\ noiseOp # null
     /\ noiseOp.op = "reload"
     /\ noiseOp.baseSeed # noiseIn.baseSeed)
        => \A seed \in {"tempSeed", "roughSeed", "salSeed", "fertSeed", "fireSeed"} :
               AxisSeeds(sampler.closure)[seed] # noiseOp.seeds[seed]

----------------------------------------------------------------------------
(* Properties of the command registry, under SpecRegistry.                 *)

\* the line has nothing but white space
Blank(line) == \A i \in DOMAIN line : line[i] \in {"", " "}

\* the first word of a line that is not blank
FirstWord(line) == line[CHOOSE i \in DOMAIN line : line[i] \notin {"", " "} /\ \A j \in 1..(i - 1) : line[j] \in {"", " "}]

\* the first word of the line names a command of the Map, in lower case or,
\* for help, in upper case
Known(byName, line) ==
    /\ ~Blank(line)
    /\ \/ FirstWord(line) \in DOMAIN byName
       \/ FirstWord(line) = "HELP" /\ "help" \in DOMAIN byName

\* C36: no exception a run throws leaves execute: it is caught and given
\* to ctx.print as one line that begins with 'Error: ', the commands of
\* the Map before the call are in it afterwards, and a command named after a run threw
\* is run all the same; a blank line runs and prints nothing, and an
\* unknown name runs nothing and prints one 'Unknown command' line.
C36_ExecuteContainsErrors ==
    registry.last # null =>
        /\ ~registry.last.result.propagated
        /\ \A n \in DOMAIN registry.last.before :
               n \in DOMAIN registry.byName /\ registry.byName[n] = registry.last.before[n]
        /\ Blank(registry.last.line) =>
               registry.last.result.ran = null /\ registry.last.result.printed = <<>>
        /\ (~Blank(registry.last.line) /\ ~Known(registry.last.before, registry.last.line)) =>
               /\ registry.last.result.ran = null
               /\ Len(registry.last.result.printed) = 1
               /\ registry.last.result.printed[1][1] = "Unknown command: "
        /\ Known(registry.last.before, registry.last.line) =>
               /\ registry.last.result.ran # null
               /\ registry.last.outcome.throws =>
                      /\ Len(registry.last.result.printed) = 1
                      /\ registry.last.result.printed[1][1] = "Error: "
               /\ ~registry.last.outcome.throws =>
                      registry.last.result.printed = registry.last.outcome.printed
        /\ registry.last.result.printed # <<>> =>
               debugConsole.output[Len(debugConsole.output)] = registry.last.result.printed[1]

\* a run threw a string right after another run had thrown, and the console
\* shows the line of the second
C36_Witness ==
    /\ registry.last # null
    /\ registry.last.afterThrow
    /\ registry.last.result.ran = viewCmd
    /\ registry.last.outcome.throws
    /\ registry.last.outcome.err.kind = "string"
    /\ debugConsole.output[Len(debugConsole.output)] = <<"Error: ", "oops">>
    /\ tileCmd \in registry.specs

----------------------------------------------------------------------------
(* Properties of the console and the keys, under SpecConsole, and of the   *)
(* keyboard handler, under SpecKeyboard.                                    *)

\* C37: in every state the page reaches through Backquote toggles, Escape
\* presses in the console input and keys going down and up, the keyboard
\* handler is enabled exactly if the console is closed, and while the
\* console is open no movement key is latched: down is empty and axis()
\* gives (0, 0).
C37_KeysFollowConsole ==
    /\ kb.enabled <=> ~isOpen(debugConsole)
    /\ isOpen(debugConsole) => (kb.down = {} /\ axis(kb) = <<0, 0>>)

\* the console is open for the second time at least, and keys of both axes
\* had been latched before
C37_Witness ==
    /\ isOpen(debugConsole)
    /\ ~kb.enabled
    /\ {"KeyW", "ArrowLeft"} \subseteq kb.recorded
    /\ Len(debugConsole.output) >= 2

\* C38: once destroy() was called the handler records no key event any
\* more: whatever calls of setEnabled and clear and whatever key events
\* follow, its listeners stay detached and down stays empty.
C38_DestroyedStaysSilent ==
    kb.destroyed => (~kb.listening /\ kb.down = {})
====
